---------------------------- MODULE Spec2Model ----------------------------
(***************************************************************************)
(* A model of dwfv's signal store (signaldb), its VCD parser (vcd) and the *)
(* asynchronous facade (async_db).                                         *)
(*                                                                         *)
(* Timestamps are modelled as integers of one scale: db.rs and signal.rs   *)
(* build them with Timestamp::new(n) and compare them by value; the VCD    *)
(* parser produces timescale * n.                                          *)
(***************************************************************************)
EXTENDS Integers, Sequences, FiniteSets, TLC

(***************************************************************************)
(* Bounds of the model                                                     *)
(***************************************************************************)
\* Timestamps handed to the store's API range over 0..MaxTime
MaxTime == 3

Times == 0..MaxTime

(***************************************************************************)
(* SignalValue (signaldb/value.rs)                                         *)
(***************************************************************************)
BitValue == {"Low", "High", "HighZ", "Invalid", "Overflow", "Undefined", "Filtered"}

\* SignalValue::Literal(bits, _), least significant bit first
Literal(bits) == [k |-> "Literal", bits |-> bits, s |-> <<>>]

\* SignalValue::Symbol(s)
Symbol(s) == [k |-> "Symbol", bits |-> <<>>, s |-> s]

\* SignalValue::new_default(width, value)
new_default(width, value) == Literal([i \in 1..width |-> value])

\* SignalValue::invalid()
invalid == Literal(<<"Undefined">>)

\* literal.get(i) of the equality loop: a missing bit reads as None
BitAt(l, i) == IF i <= Len(l) THEN l[i] ELSE "None"

Max(a, b) == IF a >= b THEN a ELSE b

\* impl PartialEq for SignalValue
ValEq(a, b) ==
    IF a.k = "Literal" /\ b.k = "Literal"
    THEN \A i \in 1..Max(Len(a.bits), Len(b.bits)) :
            LET l == BitAt(a.bits, i)
                r == BitAt(b.bits, i)
            IN  IF l # "None" /\ r # "None" THEN l = r
                ELSE IF l = "None" THEN r = "Low" ELSE l = "Low"
    ELSE IF a.k = "Symbol" /\ b.k = "Symbol" THEN a.s = b.s
    ELSE FALSE

\* SignalValue::expand(width)
expand(v, width) ==
    IF v.k = "Literal"
    THEN LET first == IF Len(v.bits) > 0 THEN v.bits[1] ELSE "High"
             expand_value == IF first = "High" THEN "Low" ELSE first
         IN  Literal([i \in 1..Max(Len(v.bits), width) |->
                        IF i <= Len(v.bits) THEN v.bits[i] ELSE expand_value])
    ELSE v

\* SignalValue::new(0): the loop pushes no bit
new_0 == Literal(<<>>)

\* SignalValue::new(1): one bit
new_1 == Literal(<<"High">>)

(***************************************************************************)
(* Signal (signaldb/signal.rs)                                             *)
(***************************************************************************)
\* Signal::new(id, name, width)
NewSignal(id, name, width) ==
    [id |-> id, name |-> name, width |-> width, events |-> <<>>,
     default |-> new_default(width, "Undefined")]

\* events[index] with the source's 0-based index
Ev(events, index) == events[index + 1]

\* slice::binary_search_by_key over the events' timestamps: Ok(index) of the
\* event with that timestamp, or Err(index) of the insertion point
RECURSIVE BSearch(_, _, _, _)
BSearch(events, timestamp, lo, hi) ==
    IF lo >= hi THEN [ok |-> FALSE, index |-> lo]
    ELSE LET mid == lo + ((hi - lo) \div 2)
         IN  IF Ev(events, mid).timestamp = timestamp THEN [ok |-> TRUE, index |-> mid]
             ELSE IF Ev(events, mid).timestamp < timestamp
                  THEN BSearch(events, timestamp, mid + 1, hi)
                  ELSE BSearch(events, timestamp, lo, mid)

binary_search_by_key(events, timestamp) == BSearch(events, timestamp, 0, Len(events))

\* Signal::prev_value_at_index
prev_value_at_index(sig, index) ==
    IF index = 0 THEN sig.default
    ELSE IF index >= Len(sig.events)
         THEN IF Len(sig.events) > 0 THEN sig.events[Len(sig.events)].new_value
              ELSE sig.default
         ELSE Ev(sig.events, index - 1).new_value

\* Vec::remove(index), 0-based
VecRemove(s, index) == SubSeq(s, 1, index) \o SubSeq(s, index + 2, Len(s))

\* Vec::insert(index, e), 0-based
VecInsert(s, index, e) == SubSeq(s, 1, index) \o <<e>> \o SubSeq(s, index + 1, Len(s))

\* The seek of Signal::add_event: appending after the last event skips the search
AddEventSeek(sig, timestamp) ==
    IF Len(sig.events) > 0
    THEN IF sig.events[Len(sig.events)].timestamp < timestamp
         THEN [ok |-> FALSE, index |-> Len(sig.events)]
         ELSE binary_search_by_key(sig.events, timestamp)
    ELSE [ok |-> FALSE, index |-> 0]

\* add_event comparing the new value, on a hit, with the value of the event it hits
add_event_vs_current(sig, timestamp, value) ==
    LET new_value == expand(value, sig.width)
        seek == AddEventSeek(sig, timestamp)
        index == seek.index
    IN  IF seek.ok
        THEN IF ValEq(Ev(sig.events, index).new_value, new_value)
             THEN [sig EXCEPT !.events = VecRemove(@, index)]
             ELSE [sig EXCEPT !.events[index + 1].new_value = new_value]
        ELSE IF ~ValEq(prev_value_at_index(sig, index), new_value)
             THEN [sig EXCEPT !.events =
                      VecInsert(@, index, [timestamp |-> timestamp, new_value |-> new_value])]
             ELSE sig

\* Signal::add_event: the signal after the call
add_event(sig, timestamp, value) ==
    LET new_value == expand(value, sig.width)
        seek == AddEventSeek(sig, timestamp)
        index == seek.index
    IN  IF seek.ok
        THEN IF ValEq(prev_value_at_index(sig, index), new_value)
             THEN [sig EXCEPT !.events = VecRemove(@, index)]
             ELSE [sig EXCEPT !.events[index + 1].new_value = new_value]
        ELSE IF ~ValEq(prev_value_at_index(sig, index), new_value)
             THEN [sig EXCEPT !.events =
                      VecInsert(@, index, [timestamp |-> timestamp, new_value |-> new_value])]
             ELSE sig

\* value_at returning, on a hit, the value in force before the event
value_at_before(sig, timestamp) ==
    LET seek == binary_search_by_key(sig.events, timestamp)
    IN  prev_value_at_index(sig, seek.index)

\* Signal::value_at
value_at(sig, timestamp) ==
    LET seek == binary_search_by_key(sig.events, timestamp)
    IN  IF seek.ok THEN Ev(sig.events, seek.index).new_value
        ELSE prev_value_at_index(sig, seek.index)

\* Signal::event_at: the value, or None
None == [k |-> "None", bits |-> <<>>, s |-> <<>>]

event_at(sig, timestamp) ==
    LET seek == binary_search_by_key(sig.events, timestamp)
    IN  IF seek.ok THEN Ev(sig.events, seek.index).new_value ELSE None

\* index_of returning, on a hit, the index after the event
index_of_past_hit(sig, timestamp) ==
    LET seek == binary_search_by_key(sig.events, timestamp)
    IN  IF seek.ok THEN seek.index + 1 ELSE seek.index

\* Signal::index_of: the index of the event at the timestamp, or of the insertion point
index_of(sig, timestamp) == binary_search_by_key(sig.events, timestamp).index

\* a - b on usize. When a < b the subtraction overflows (a panic in a debug build, a
\* wrapped value in a release build): Overflow stands for both outcomes
Overflow == 0 - 1

usize_sub(a, b) == IF a >= b THEN a - b ELSE Overflow

\* events_between counting the event at `end` too
events_between_inclusive(sig, begin, end) ==
    LET begin_index == index_of(sig, begin)
        end_index == index_of(sig, end + 1)
    IN  [before |-> prev_value_at_index(sig, begin_index),
         count |-> usize_sub(end_index, begin_index),
         after |-> prev_value_at_index(sig, end_index)]

\* Signal::events_between: the value before `begin`, the number of events of the
\* period and the value before `end`
events_between(sig, begin, end) ==
    LET begin_index == index_of(sig, begin)
        end_index == index_of(sig, end)
    IN  [before |-> prev_value_at_index(sig, begin_index),
         count |-> usize_sub(end_index, begin_index),
         after |-> prev_value_at_index(sig, end_index)]

\* Option<Timestamp>
NoTimestamp == [some |-> FALSE, t |-> 0]
SomeTimestamp(t) == [some |-> TRUE, t |-> t]

\* The least and the greatest element of a set of indices
First(I) == CHOOSE i \in I : \A j \in I : i <= j
Last(I) == CHOOSE i \in I : \A j \in I : j <= i

\* The timestamp of the event at index i (1-based) of the indices I the loop visits
\* with its condition true: the first of them for a forward loop
FirstOf(sig, I) == IF I = {} THEN NoTimestamp ELSE SomeTimestamp(sig.events[First(I)].timestamp)

\* and the last of them for a loop over the reversed slice
LastOf(sig, I) == IF I = {} THEN NoTimestamp ELSE SomeTimestamp(sig.events[Last(I)].timestamp)

\* get_next_rising_edge starting its scan at the event at the timestamp
get_next_rising_edge_from(sig, timestamp) ==
    LET start == index_of(sig, timestamp)
    IN  FirstOf(sig, {i \in (start + 1)..Len(sig.events) :
                        ~ValEq(sig.events[i].new_value, new_0)})

\* Signal::get_next_rising_edge
get_next_rising_edge(sig, timestamp) ==
    LET start == index_of(sig, timestamp + 1)
    IN  FirstOf(sig, {i \in (start + 1)..Len(sig.events) :
                        ~ValEq(sig.events[i].new_value, new_0)})

\* Signal::get_next_falling_edge
get_next_falling_edge(sig, timestamp) ==
    LET start == index_of(sig, timestamp + 1)
    IN  FirstOf(sig, {i \in (start + 1)..Len(sig.events) :
                        ValEq(sig.events[i].new_value, new_0)})

\* Signal::get_previous_rising_edge
get_previous_rising_edge(sig, timestamp) ==
    LET end == index_of(sig, timestamp)
    IN  LastOf(sig, {i \in 1..end : ~ValEq(sig.events[i].new_value, new_0)})

\* Signal::get_first_event
get_first_event(sig) ==
    IF Len(sig.events) > 0 THEN SomeTimestamp(sig.events[1].timestamp) ELSE NoTimestamp

\* Signal::get_last_event
get_last_event(sig) ==
    IF Len(sig.events) > 0 THEN SomeTimestamp(sig.events[Len(sig.events)].timestamp)
    ELSE NoTimestamp


(***************************************************************************)
(* VCD lexer (vcd/lexer.rs). Text is a sequence of characters, a word a    *)
(* sequence of characters without whitespace.                              *)
(***************************************************************************)
Digits == <<"0", "1", "2", "3", "4", "5", "6", "7", "8", "9">>

IsDigit(c) == \E i \in 1..10 : Digits[i] = c

DigitValue(c) == (CHOOSE i \in 1..10 : Digits[i] = c) - 1

IsWhitespace(c) == c \in {" ", "\n"}

Fail == [ok |-> FALSE, v |-> 0]

RECURSIVE DecimalValue(_)
DecimalValue(digits) ==
    IF digits = <<>> THEN 0
    ELSE 10 * DecimalValue(SubSeq(digits, 1, Len(digits) - 1)) + DigitValue(digits[Len(digits)])

AllDigits(w) == Len(w) > 0 /\ \A i \in 1..Len(w) : IsDigit(w[i])

\* str::parse for an unsigned integer: digits after an optional +
ParseUnsigned(w) ==
    LET digits == IF Len(w) > 0 /\ w[1] = "+" THEN Tail(w) ELSE w
    IN  IF AllDigits(digits) THEN [ok |-> TRUE, v |-> DecimalValue(digits)] ELSE Fail

\* str::parse for a signed integer: digits after an optional + or -
ParseSigned(w) ==
    LET digits == IF Len(w) > 0 /\ w[1] \in {"+", "-"} THEN Tail(w) ELSE w
    IN  IF AllDigits(digits)
        THEN [ok |-> TRUE,
              v |-> IF w[1] = "-" THEN 0 - DecimalValue(digits) ELSE DecimalValue(digits)]
        ELSE Fail

\* Tokens; the fields a kind does not use are empty
Tok(t) == [t |-> t, w |-> <<>>, kw |-> "", n |-> 0, m |-> 0, v |-> None, scale |-> ""]

TokWord(w) == [Tok("Word") EXCEPT !.w = w]
TokKeyword(kw) == [Tok("Keyword") EXCEPT !.kw = kw]
TokRange(n, m) == [Tok("Range") EXCEPT !.n = n, !.m = m]
TokIdentifier(w) == [Tok("Identifier") EXCEPT !.w = w]
TokIdentifierRange(w, n, m) == [Tok("IdentifierRange") EXCEPT !.w = w, !.n = n, !.m = m]
TokInteger(n) == [Tok("Integer") EXCEPT !.n = n]
TokValue(v) == [Tok("Value") EXCEPT !.v = v]
TokValueIdentifier(v, w) == [Tok("ValueIdentifier") EXCEPT !.v = v, !.w = w]
TokTimestamp(n) == [Tok("Timestamp") EXCEPT !.n = n]
TokTimescale(n, scale) == [Tok("Timescale") EXCEPT !.n = n, !.scale = scale]
TokEof == Tok("Eof")
NoTok == Tok("None")

W_comment == <<"$", "c", "o", "m", "m", "e", "n", "t">>
W_date == <<"$", "d", "a", "t", "e">>
W_dumpvars == <<"$", "d", "u", "m", "p", "v", "a", "r", "s">>
W_end == <<"$", "e", "n", "d">>
W_enddefinitions == <<"$", "e", "n", "d", "d", "e", "f", "i", "n", "i", "t", "i", "o", "n", "s">>
W_scope == <<"$", "s", "c", "o", "p", "e">>
W_timescale == <<"$", "t", "i", "m", "e", "s", "c", "a", "l", "e">>
W_var == <<"$", "v", "a", "r">>
W_version == <<"$", "v", "e", "r", "s", "i", "o", "n">>
W_upscope == <<"$", "u", "p", "s", "c", "o", "p", "e">>

\* Token::retokenize_kw
retokenize_kw(word) ==
    CASE word = W_comment -> TokKeyword("Comment")
      [] word = W_date -> TokKeyword("Date")
      [] word = W_dumpvars -> TokKeyword("DumpVars")
      [] word = W_end -> TokKeyword("End")
      [] word = W_enddefinitions -> TokKeyword("EndDefinitions")
      [] word = W_scope -> TokKeyword("Scope")
      [] word = W_timescale -> TokKeyword("Timescale")
      [] word = W_var -> TokKeyword("Var")
      [] word = W_version -> TokKeyword("Version")
      [] word = W_upscope -> TokKeyword("Upscope")
      [] OTHER -> NoTok

\* Token::retokenize_integer
retokenize_integer(word) ==
    IF ParseUnsigned(word).ok THEN TokInteger(ParseUnsigned(word).v) ELSE NoTok

\* BitValue::from_char
from_char(c) ==
    CASE c = "0" -> "Low"
      [] c = "1" -> "High"
      [] c = "z" -> "HighZ"
      [] c = "u" -> "Undefined"
      [] c = "-" -> "Overflow"
      [] c = "w" -> "Filtered"
      [] OTHER -> "Invalid"

\* SignalValue::from_str: one bit per character, reversed so that the least
\* significant bit comes first
from_str(chars) == Literal([i \in 1..Len(chars) |-> from_char(chars[Len(chars) + 1 - i])])

\* Token::retokenize_value
retokenize_value(word) ==
    CASE word[1] = "b" -> TokValue(from_str(Tail(word)))
      [] word[1] \in {"x", "-", "z", "u", "w", "1", "0"} ->
            TokValueIdentifier(from_str(<<word[1]>>), Tail(word))
      [] word[1] = "s" -> TokValue(Symbol(Tail(word)))
      [] OTHER -> NoTok

\* Token::retokenize_timestamp
retokenize_timestamp(word) ==
    IF word[1] = "#" /\ ParseSigned(Tail(word)).ok
    THEN TokTimestamp(ParseSigned(Tail(word)).v)
    ELSE NoTok

\* The index of the first occurrence of c in word, 0 when there is none
Find(word, c) ==
    IF \E i \in 1..Len(word) : word[i] = c
    THEN CHOOSE i \in 1..Len(word) : word[i] = c /\ \A j \in 1..(i - 1) : word[j] # c
    ELSE 0

\* Token::retokenize_range: [N:M]
retokenize_range(word) ==
    IF Len(word) < 2 \/ word[1] # "[" \/ word[Len(word)] # "]" THEN NoTok
    ELSE LET inner == SubSeq(word, 2, Len(word) - 1)
             colon == Find(inner, ":")
             first == SubSeq(inner, 1, colon - 1)
             second == SubSeq(inner, colon + 1, Len(inner))
         IN  IF colon = 0 \/ Find(second, ":") # 0 THEN NoTok
             ELSE IF ParseUnsigned(first).ok /\ ParseUnsigned(second).ok
                  THEN TokRange(ParseUnsigned(first).v, ParseUnsigned(second).v)
                  ELSE NoTok

\* Token::retokenize_id_range
retokenize_id_range(word) ==
    LET i == Find(word, "[")
    IN  IF i = 0 THEN TokIdentifier(word)
        ELSE LET range == retokenize_range(SubSeq(word, i, Len(word)))
             IN  IF range.t = "Range"
                 THEN TokIdentifierRange(SubSeq(word, 1, i - 1), range.n, range.m)
                 ELSE NoTok

\* Scale::from_str
Scales == {<<"s">>, <<"m", "s">>, <<"u", "s">>, <<"n", "s">>, <<"p", "s">>, <<"f", "s">>}

\* Token::retokenize_timescale; the unwrap of an unknown unit panics
retokenize_timescale(word) ==
    IF word[Len(word)] # "s" THEN NoTok
    ELSE LET nonnum == {i \in 1..Len(word) : ~IsDigit(word[i])}
             end == CHOOSE i \in nonnum : \A j \in nonnum : i <= j
             value == ParseSigned(SubSeq(word, 1, end - 1))
             unit == SubSeq(word, end, Len(word))
         IN  IF unit \in Scales
             THEN TokTimescale(IF value.ok THEN value.v ELSE 1, unit)
             ELSE Tok("Panic")

OrElse(a, b) == IF a.t # "None" THEN a ELSE b

\* Token::retokenize
retokenize(tok, ctx) ==
    IF tok.t # "Word" THEN tok
    ELSE LET word == tok.w
         IN  CASE ctx = "Comment" -> OrElse(retokenize_kw(word), TokWord(word))
               [] ctx = "Stmt" ->
                     OrElse(retokenize_kw(word),
                       OrElse(retokenize_timestamp(word),
                         OrElse(retokenize_value(word), TokWord(word))))
               [] ctx = "Id" ->
                     OrElse(retokenize_integer(word),
                       OrElse(retokenize_id_range(word), TokIdentifier(word)))
               [] ctx = "ShortId" -> TokIdentifier(word)
               [] ctx = "IdRange" ->
                     OrElse(retokenize_range(word),
                       OrElse(retokenize_kw(word), TokIdentifier(word)))
               [] ctx = "Value" ->
                     OrElse(retokenize_kw(word),
                       OrElse(retokenize_value(word), TokWord(word)))
               [] ctx = "Timescale" ->
                     OrElse(retokenize_kw(word),
                       OrElse(retokenize_integer(word),
                         OrElse(retokenize_timescale(word), TokWord(word))))

\* BufRead::read_line at position pos (0-based) of the text: the characters up to
\* and including the next newline, or up to the end of the text
RECURSIVE LineEnd(_, _)
LineEnd(text, pos) ==
    IF pos >= Len(text) THEN pos
    ELSE IF text[pos + 1] = "\n" THEN pos + 1
    ELSE LineEnd(text, pos + 1)

read_line(text, pos) == SubSeq(text, pos + 1, LineEnd(text, pos))

\* str::split_whitespace
RECURSIVE split_whitespace(_)
split_whitespace(chars) ==
    IF chars = <<>> THEN <<>>
    ELSE IF IsWhitespace(chars[1]) THEN split_whitespace(Tail(chars))
    ELSE LET ws == {i \in 1..Len(chars) : IsWhitespace(chars[i])}
             stop == IF ws = {} THEN Len(chars) + 1 ELSE CHOOSE i \in ws : \A j \in ws : i <= j
         IN  <<SubSeq(chars, 1, stop - 1)>> \o split_whitespace(SubSeq(chars, stop, Len(chars)))

\* The loop of Lexer::feed_words: read_line appends to buf until buf differs from
\* "\n". At the end of the text read_line appends nothing, so a buf of "\n" never
\* changes again and the loop does not end (hang).
RECURSIVE FeedLoop(_, _, _)
FeedLoop(text, pos, buf) ==
    LET line == read_line(text, pos)
        newbuf == buf \o line
    IN  IF newbuf # <<"\n">>
        THEN [hang |-> FALSE, pos |-> pos + Len(line), buf |-> newbuf, num_bytes |-> Len(line)]
        ELSE IF Len(line) = 0
             THEN [hang |-> TRUE, pos |-> pos, buf |-> newbuf, num_bytes |-> 0]
             ELSE FeedLoop(text, pos + Len(line), newbuf)

\* Lexer::new
NewLexer == [pos |-> 0, buf |-> <<>>, tok_queue |-> <<>>, hang |-> FALSE]

\* Lexer::feed_words, once its loop has read the lines into `fed`
fed_words(lx, fed, words) ==
    [pos |-> fed.pos, buf |-> fed.buf, hang |-> fed.hang,
     tok_queue |-> IF fed.hang THEN lx.tok_queue
                   ELSE IF fed.num_bytes = 0 THEN Append(lx.tok_queue, TokEof)
                   ELSE lx.tok_queue \o [i \in 1..Len(words) |-> TokWord(words[i])]]

split_buf(lx, fed) == fed_words(lx, fed, split_whitespace(fed.buf))

\* Lexer::feed_words
feed_words(text, lx) == split_buf(lx, FeedLoop(text, lx.pos, <<>>))

\* Lexer::prepare_queue
prepare_queue(text, lx) == IF lx.tok_queue = <<>> THEN feed_words(text, lx) ELSE lx

\* The loop of Lexer::pop, after a call of prepare_queue: it ends with a token at the
\* head of the queue, or never when the lexer hangs
RECURSIVE PopLoop(_, _)
PopLoop(text, prepared) ==
    IF prepared.hang \/ prepared.tok_queue # <<>> THEN prepared
    ELSE PopLoop(text, prepare_queue(text, prepared))

\* The token Lexer::pop returns (NoTok when the lexer hangs) and the lexer after
pop_front(ready, ctx) ==
    IF ready.hang THEN [tok |-> NoTok, lexer |-> ready]
    ELSE [tok |-> retokenize(Head(ready.tok_queue), ctx),
          lexer |-> [ready EXCEPT !.tok_queue = Tail(@)]]

\* Lexer::pop
pop(text, lx, ctx) == pop_front(PopLoop(text, prepare_queue(text, lx)), ctx)

\* Lexer::get_current_line
get_current_line(lx) == lx.buf

(***************************************************************************)
(* State                                                                   *)
(***************************************************************************)
VARIABLES
    \* SignalDB (signaldb/db.rs)
    scope,          \* the scope tree: the set of scope paths and the signals attached
    signals,        \* id -> Signal
    timestamps,     \* Vec<Timestamp>
    now,            \* current time
    searches,       \* expression -> Search
    timescale,      \* the timescale of the dump
    status,         \* status string
    initialized,    \* the initialization latch
    valid,          \* validity flag
    lock_initialized, \* owner of the latch's mutex, or NoThread
    lock_valid,     \* owner of the validity flag's mutex, or NoThread
    lock_signals,   \* owner of the mutex of the signals, or NoThread
    panicked,       \* a panic! was raised
    ret,            \* the result of the last call of the store's API
    \* The thread running SignalDB::parse_vcd (AsyncSignalDB::parse_vcd)
    text,           \* the input it reads
    lexer,          \* Lexer
    parser,         \* Parser, the position of the thread in it, and its result
    \* The threads calling SignalDB::wait_until_initialized
    waiter,
    \* The thread spawned by AsyncSignalDB::search
    worker

dbvars == <<scope, signals, timestamps, now, searches, timescale, status, initialized, valid,
            lock_initialized, lock_valid, lock_signals, panicked, ret>>

parservars == <<text, lexer, parser>>

\* What neither the store's writers nor the latch touch
quiet == <<searches, timescale, worker>>

\* Number of threads calling wait_until_initialized
NumWaiters == 2

Waiters == 1..NumWaiters

\* No thread owns the mutex
NoThread == 0

\* A status string: a message, with the line or the count formatted into it
Status(msg) == [msg |-> msg, line |-> <<>>, n |-> 0]

\* Threads that have not started
IdleParser ==
    [pc |-> "idle", scope |-> <<>>, limit |-> [some |-> FALSE, v |-> 0],
     timescale |-> [n |-> 1, scale |-> <<"p", "s">>], tok |-> NoTok, back |-> "stmt",
     width |-> 0, short_ident |-> <<>>, ident |-> <<>>, value |-> None, times |-> 0,
     new_timescale |-> [n |-> 1, scale |-> <<"p", "s">>], err |-> <<>>]

IdleWaiter == [pc |-> "idle", result |-> "None", msg |-> Status("")]

\* seen: the timestamps its iterator has yielded
IdleWorker == [pc |-> "idle", expr |-> "", index |-> 0, timestamp |-> 0, seen |-> <<>>]

EmptyMap == [x \in {} |-> x]

\* SignalDB::new
DbNew ==
    /\ scope = [scopes |-> {<<>>}, signals |-> {}]
    /\ signals = EmptyMap
    /\ timestamps = <<0>>
    /\ now = 0
    /\ searches = EmptyMap
    /\ timescale = [n |-> 1, scale |-> <<"p", "s">>]
    /\ status = Status("Test")
    /\ initialized = FALSE
    /\ valid = TRUE
    /\ lock_initialized = NoThread
    /\ lock_valid = NoThread
    /\ lock_signals = NoThread
    /\ panicked = FALSE
    /\ ret = "None"

(***************************************************************************)
(* Scope (signaldb/scope.rs)                                               *)
(***************************************************************************)
Prefixes(path) == {SubSeq(path, 1, n) : n \in 0..Len(path)}

\* add_scope creating the first scope of the path only
add_scope_first(sc, path) ==
    [sc EXCEPT !.scopes = @ \cup {SubSeq(path, 1, IF path = <<>> THEN 0 ELSE 1)}]

\* Scope::add_scope: creates every missing scope along the path
add_scope(sc, path) == [sc EXCEPT !.scopes = @ \cup Prefixes(path)]

\* Scope::get_scope_by_path: whether the path names a scope
get_scope_by_path(sc, path) == path \in sc.scopes

\* Scope::add_signal on the scope at path
add_signal(sc, path, id) == [sc EXCEPT !.signals = @ \cup {<<path, id>>}]

(***************************************************************************)
(* SignalDB operations (signaldb/db.rs); each leaves `ret` to its caller   *)
(***************************************************************************)
\* SignalDB::create_scope
create_scope(path) == scope' = add_scope(scope, path)

\* SignalDB::declare_signal: the signal is registered before the scope is looked up
declare_signal(path, sig) ==
    /\ signals' = [id \in DOMAIN signals \cup {sig.id} |->
                      IF id = sig.id THEN sig ELSE signals[id]]
    /\ IF get_scope_by_path(scope, path)
       THEN scope' = add_signal(scope, path, sig.id) /\ UNCHANGED panicked
       ELSE panicked' = TRUE /\ UNCHANGED scope

\* set_time accepting a timestamp equal to the current time
set_time_not_strict(timestamp) ==
    IF timestamp >= now
    THEN timestamps' = Append(timestamps, timestamp) /\ now' = timestamp
    ELSE UNCHANGED <<timestamps, now>>

\* set_time following every marker, a marker that goes back in time included
set_time_any_marker(timestamp) ==
    /\ now' = timestamp
    /\ timestamps' = IF timestamp > now THEN Append(timestamps, timestamp) ELSE timestamps

\* SignalDB::set_time
set_time(timestamp) ==
    IF timestamp > now
    THEN timestamps' = Append(timestamps, timestamp) /\ now' = timestamp
    ELSE UNCHANGED <<timestamps, now>>

\* SignalDB::insert_event
insert_event(signal_id, timestamp, new_value) ==
    /\ set_time(timestamp)
    /\ IF signal_id \in DOMAIN signals
       THEN /\ signals' = [signals EXCEPT ![signal_id] = add_event(@, timestamp, new_value)]
            /\ ret' = "Ok"
       ELSE /\ ret' = "SignalNotFound"
            /\ UNCHANGED signals

\* SignalDB::set_current_value
set_current_value(signal_id, new_value) == insert_event(signal_id, now, new_value)

\* SignalDB::set_status
set_status(new_status) == status' = new_status

\* Condvar::notify_all: every thread blocked in Condvar::wait is woken
notify_all == [w \in Waiters |-> IF waiter[w].pc = "waiting"
                                 THEN [waiter[w] EXCEPT !.pc = "woken"] ELSE waiter[w]]

\* mark_as_initialized without the notification
mark_as_initialized_silent ==
    /\ lock_initialized = NoThread
    /\ initialized' = TRUE
    /\ UNCHANGED waiter

\* SignalDB::mark_as_initialized: under the latch's mutex, sets the latch and notifies
mark_as_initialized ==
    /\ lock_initialized = NoThread
    /\ initialized' = TRUE
    /\ waiter' = notify_all

\* mark_as_invalid leaving the flag as it is
mark_as_invalid_keeps ==
    /\ lock_valid = NoThread
    /\ valid' = valid

\* SignalDB::mark_as_invalid: under the validity flag's mutex
mark_as_invalid ==
    /\ lock_valid = NoThread
    /\ valid' = FALSE


vars == <<dbvars, parservars, waiter, worker>>

(***************************************************************************)
(* Spec: a client drives the store's API, one call after the other         *)
(***************************************************************************)
\* Identifiers the client uses; UnknownId is never declared
Id0 == <<"0">>
UnknownId == <<"?">>
ApiIds == {Id0, UnknownId}

\* The declaration the client makes: a 2-bit wire under the root scope
ApiDecls == {NewSignal(Id0, <<"foo">>, 2)}

ApiPaths == {<<>>}

\* 0, 1 and u, as SignalValue::from_str reads them
V0 == Literal(<<"Low">>)
V1 == Literal(<<"High">>)
VU == Literal(<<"Undefined">>)
ApiValues == {V0, V1, VU}

Init ==
    /\ DbNew
    /\ text = <<>>
    /\ lexer = NewLexer
    /\ parser = IdleParser
    /\ waiter = [w \in Waiters |-> IdleWaiter]
    /\ worker = IdleWorker

\* A signal is declared once, before it receives events
ApiDeclareSignal ==
    /\ ~panicked
    /\ \E path \in ApiPaths, sig \in ApiDecls :
          /\ sig.id \notin DOMAIN signals
          /\ declare_signal(path, sig)
    /\ ret' = "None"
    /\ UNCHANGED <<timestamps, now, quiet, status, initialized, valid,
                   lock_initialized, lock_valid, lock_signals, parservars, waiter>>

ApiSetTime ==
    /\ ~panicked
    /\ \E t \in Times : set_time(t)
    /\ ret' = "None"
    /\ UNCHANGED <<scope, signals, quiet, status, initialized, valid,
                   lock_initialized, lock_valid, lock_signals, panicked, parservars, waiter>>

ApiInsertEvent ==
    /\ ~panicked
    /\ \E id \in ApiIds, t \in Times, v \in ApiValues : insert_event(id, t, v)
    /\ UNCHANGED <<scope, quiet, status, initialized, valid,
                   lock_initialized, lock_valid, lock_signals, panicked, parservars, waiter>>

ApiSetCurrentValue ==
    /\ ~panicked
    /\ \E id \in ApiIds, v \in ApiValues : set_current_value(id, v)
    /\ UNCHANGED <<scope, quiet, status, initialized, valid,
                   lock_initialized, lock_valid, lock_signals, panicked, parservars, waiter>>

Next ==
    \/ ApiDeclareSignal
    \/ ApiSetTime
    \/ ApiInsertEvent
    \/ ApiSetCurrentValue

Spec == Init /\ [][Next]_vars

(***************************************************************************)
(* SignalDB::wait_until_initialized, step by step. The thread holds the    *)
(* latch's mutex from the moment it finds the latch set until it returns,  *)
(* and the validity flag's mutex from its check until it returns.          *)
(***************************************************************************)
nonlatch == <<scope, signals, timestamps, now, quiet, lock_signals, panicked, ret,
             parservars>>

\* wait_until_initialized entering without looking at the latch
WaitEnterNoCheck(w) ==
    /\ waiter[w].pc \in {"idle", "woken"}
    /\ lock_initialized = NoThread
    /\ lock_initialized' = w
    /\ waiter' = [waiter EXCEPT ![w].pc = "locked"]
    /\ UNCHANGED <<status, initialized, valid, lock_valid, lock_signals, nonlatch>>

\* lock the latch's mutex (at the call, or when woken inside Condvar::wait) and test
\* the latch: go on with the mutex held, or release it and block in Condvar::wait
WaitEnter(w) ==
    /\ waiter[w].pc \in {"idle", "woken"}
    /\ lock_initialized = NoThread
    /\ IF initialized
       THEN /\ lock_initialized' = w
            /\ waiter' = [waiter EXCEPT ![w].pc = "locked"]
       ELSE /\ waiter' = [waiter EXCEPT ![w].pc = "waiting"]
            /\ UNCHANGED lock_initialized
    /\ UNCHANGED <<status, initialized, valid, lock_valid, lock_signals, nonlatch>>

\* Condvar::wait may wake without a notification
WaitSpurious(w) ==
    /\ waiter[w].pc = "waiting"
    /\ waiter' = [waiter EXCEPT ![w].pc = "woken"]
    /\ UNCHANGED <<status, initialized, valid, lock_initialized, lock_valid, lock_signals, nonlatch>>

\* wait_until_initialized returning Ok whatever the validity flag
WaitValidAlwaysOk(w) ==
    /\ waiter[w].pc = "locked"
    /\ lock_valid = NoThread
    /\ waiter' = [waiter EXCEPT ![w].pc = "done", ![w].result = "Ok"]
    /\ lock_initialized' = NoThread
    /\ UNCHANGED <<status, initialized, valid, lock_valid, lock_signals, nonlatch>>

\* lock the validity flag's mutex and test the flag: return Ok, or go on to the status
WaitValid(w) ==
    /\ waiter[w].pc = "locked"
    /\ lock_valid = NoThread
    /\ IF valid
       THEN /\ waiter' = [waiter EXCEPT ![w].pc = "done", ![w].result = "Ok"]
            /\ lock_initialized' = NoThread
            /\ UNCHANGED lock_valid
       ELSE /\ waiter' = [waiter EXCEPT ![w].pc = "invalid"]
            /\ lock_valid' = w
            /\ UNCHANGED lock_initialized
    /\ UNCHANGED <<status, initialized, valid, nonlatch>>

\* get_status and return InitializationError with it; both mutexes are released
WaitStatus(w) ==
    /\ waiter[w].pc = "invalid"
    /\ waiter' = [waiter EXCEPT ![w].pc = "done", ![w].result = "InitializationError",
                                ![w].msg = status]
    /\ lock_valid' = NoThread
    /\ lock_initialized' = NoThread
    /\ UNCHANGED <<status, initialized, valid, nonlatch>>

\* The steps a thread in wait_until_initialized takes by itself
WaitStep(w) == WaitEnter(w) \/ WaitValid(w) \/ WaitStatus(w)

AllWaitersDone == \A w \in Waiters : waiter[w].pc = "done"

(***************************************************************************)
(* SpecLatch: clients call mark_as_initialized, mark_as_invalid and        *)
(* set_status in any order while other threads wait for the latch          *)
(***************************************************************************)
ClientStatus == {Status("Hello, World!"), Status("Bye")}

InitLatch == Init

ClientMarkInitialized ==
    /\ mark_as_initialized
    /\ UNCHANGED <<scope, signals, timestamps, now, quiet, status, valid,
                   lock_initialized, lock_valid, lock_signals, panicked, ret, parservars>>

ClientMarkInvalid ==
    /\ mark_as_invalid
    /\ UNCHANGED <<scope, signals, timestamps, now, quiet, status, initialized,
                   lock_initialized, lock_valid, lock_signals, panicked, ret, parservars, waiter>>

ClientSetStatus ==
    /\ \E st \in ClientStatus : set_status(st)
    /\ UNCHANGED <<scope, signals, timestamps, now, quiet, initialized, valid,
                   lock_initialized, lock_valid, lock_signals, panicked, ret, parservars, waiter>>

WaiterEnters == \E w \in Waiters : WaitEnter(w)
WaiterWakesSpuriously == \E w \in Waiters : WaitSpurious(w)
WaiterChecksValid == \E w \in Waiters : WaitValid(w)
WaiterReadsStatus == \E w \in Waiters : WaitStatus(w)

NextLatch ==
    \/ ClientMarkInitialized
    \/ ClientMarkInvalid
    \/ ClientSetStatus
    \/ WaiterEnters
    \/ WaiterWakesSpuriously
    \/ WaiterChecksValid
    \/ WaiterReadsStatus

SpecLatch == InitLatch /\ [][NextLatch]_vars

\* Threads are scheduled: a waiter that can take a step eventually takes one. The
\* clients are under no obligation to call anything.
SpecLatchFair == SpecLatch /\ \A w \in Waiters : WF_vars(WaitStep(w))

Returns(w) == waiter[w].pc # "done" /\ waiter'[w].pc = "done"

C5_State == \A w \in Waiters : waiter[w].pc = "done" => initialized

C5_Step ==
    \A w \in Waiters :
        Returns(w) =>
            IF valid'
            THEN waiter'[w].result = "Ok"
            ELSE waiter'[w].result = "InitializationError" /\ waiter'[w].msg = status'

\* C5: wait_until_initialized never returns before mark_as_initialized was called (the
\* only operation that sets the latch); when it returns it yields Ok if the validity
\* flag is true at that moment and otherwise an InitializationError whose message is
\* the status string the store holds at that moment.
C5_WaitUntilInitialized == [](C5_State) /\ [][C5_Step]_vars

\* One waiter returned Ok, then the store was invalidated and its status rewritten,
\* and another waiter returned the error with that status
C5_Witness ==
    \E w1, w2 \in Waiters :
        /\ waiter[w1].pc = "done" /\ waiter[w1].result = "Ok"
        /\ waiter[w2].pc = "done" /\ waiter[w2].result = "InitializationError"
        /\ waiter[w2].msg = Status("Bye")

\* C9: both mark_as_initialized and mark_as_invalid wake every thread blocked in
\* wait_until_initialized: after either call alone each waiter eventually returns.
C9_EitherCallWakes == (initialized \/ ~valid) ~> AllWaitersDone

\* C9 as amended: mark_as_initialized wakes every thread blocked in
\* wait_until_initialized, each of which then eventually returns; mark_as_invalid
\* releases nobody: no waiter returns while the latch is not set.
C9_MarkInitializedWakes ==
    /\ initialized ~> AllWaitersDone
    /\ [](\A w \in Waiters : waiter[w].pc = "done" => initialized)
    /\ [][valid /\ ~valid' => waiter' = waiter]_vars

\* Every waiter was released (two of them from Condvar::wait) after the store was
\* marked invalid and then initialized
C9_Witness ==
    /\ AllWaitersDone
    /\ \A w \in Waiters : waiter[w].result = "InitializationError"

(***************************************************************************)
(* The parser thread (vcd/parser.rs, SignalDB::parse_vcd_with_limit). A     *)
(* step pops one token and does what the parser does on it before the next  *)
(* pop; parser.pc is the place in the parser where the next pop happens.    *)
(***************************************************************************)
\* The parser after a pop that leads it to pc
at(tok, pc) == [parser EXCEPT !.pc = pc, !.tok = tok]

\* syntax_error!: the parse returns a SyntaxError holding the lexer's current line
syntax_error(tok, lx) ==
    [parser EXCEPT !.pc = "fail_status", !.tok = tok, !.err = get_current_line(lx)]

\* Lexer::pop does not return when Lexer::feed_words loops for ever
never_returns(tok) == [parser EXCEPT !.pc = "hang", !.tok = tok]

IsKw(tok, kw) == tok.t = "Keyword" /\ tok.kw = kw

\* format!("{}", SyntaxError): the text and the quoted line
SyntaxErrorStatus(line) == [msg |-> "Syntax Error", line |-> line, n |-> 0]

\* format!("Ready: {} events", n)
ReadyStatus(n) == [msg |-> "Ready", line |-> <<>>, n |-> n]

\* SignalDB::set_timescale
set_timescale(ts) == timescale' = ts

\* parse_vcd_with_limit releasing the latch before the parse
ParseVcdEager ==
    /\ parser.pc = "idle"
    /\ set_status(Status("Parsing VCD file..."))
    /\ mark_as_initialized
    /\ parser' = [parser EXCEPT !.pc = "stmt"]
    /\ UNCHANGED <<scope, signals, timestamps, now, quiet, valid,
                   lock_initialized, lock_valid, lock_signals, panicked, ret, text, lexer>>

\* SignalDB::parse_vcd_with_limit up to the call of Parser::parse
ParseVcd ==
    /\ parser.pc = "idle"
    /\ set_status(Status("Parsing VCD file..."))
    /\ parser' = [parser EXCEPT !.pc = "stmt"]
    /\ UNCHANGED <<scope, signals, timestamps, now, quiet, initialized, valid,
                   lock_initialized, lock_valid, lock_signals, panicked, ret, text, lexer, waiter>>

\* The limit test of Parser::parse that never stops the parse
past_limit_never(v) == parser.limit.some /\ v > parser.limit.v /\ v < 0

\* The limit test of Parser::parse on the number v of a `#` token
past_limit(v) == parser.limit.some /\ v > parser.limit.v

\* Parser::parse: one turn of its loop, up to the first pop of the statement's parser
parse(r) ==
    LET tok == r.tok
    IN  /\ lexer' = r.lexer
        /\ UNCHANGED <<scope, quiet, status, valid, lock_initialized, lock_valid, lock_signals,
                       panicked, text>>
        /\ CASE r.lexer.hang ->
                 /\ parser' = never_returns(tok)
                 /\ UNCHANGED <<signals, timestamps, now, ret, initialized, waiter>>
             [] tok.t = "Keyword" /\ tok.kw \in {"Comment", "Date", "Version"} ->
                 /\ parser' = at(tok, "comment")
                 /\ UNCHANGED <<signals, timestamps, now, ret, initialized, waiter>>
             [] IsKw(tok, "EndDefinitions") ->
                 /\ mark_as_initialized
                 /\ parser' = at(tok, "comment")
                 /\ UNCHANGED <<signals, timestamps, now, ret>>
             [] tok.t = "Keyword" /\ tok.kw \in {"DumpVars", "Scope", "Var", "Upscope",
                                                 "Timescale"} ->
                 /\ parser' = at(tok, CASE tok.kw = "DumpVars" -> "dumpvars"
                                        [] tok.kw = "Scope" -> "scope_type"
                                        [] tok.kw = "Var" -> "var_type"
                                        [] tok.kw = "Upscope" -> "upscope_end"
                                        [] tok.kw = "Timescale" -> "ts_first")
                 /\ UNCHANGED <<signals, timestamps, now, ret, initialized, waiter>>
             [] tok.t = "Timestamp" ->
                 /\ set_time(parser.timescale.n * tok.n)
                 /\ parser' = IF past_limit(tok.n)
                              THEN at(tok, "ok_status")
                              ELSE at(tok, "stmt")
                 /\ UNCHANGED <<signals, ret, initialized, waiter>>
             [] tok.t = "Value" ->
                 /\ parser' = [at(tok, "value_id") EXCEPT !.value = tok.v,
                                                           !.back = "stmt"]
                 /\ UNCHANGED <<signals, timestamps, now, ret, initialized, waiter>>
             [] tok.t = "ValueIdentifier" ->
                 /\ set_current_value(tok.w, tok.v)
                 /\ parser' = IF ret' = "Ok" THEN at(tok, "stmt")
                              ELSE syntax_error(tok, r.lexer)
                 /\ UNCHANGED <<initialized, waiter>>
             [] tok.t = "Eof" ->
                 /\ parser' = at(tok, "ok_status")
                 /\ UNCHANGED <<signals, timestamps, now, ret, initialized, waiter>>
             [] OTHER ->
                 /\ parser' = syntax_error(tok, r.lexer)
                 /\ UNCHANGED <<signals, timestamps, now, ret, initialized, waiter>>

ParseStmt ==
    /\ parser.pc = "stmt"
    /\ parse(pop(text, lexer, "Stmt"))

\* What the statement parsers leave alone, the store's event data apart
pquiet == <<searches, worker, status, initialized, valid, lock_initialized, lock_valid, lock_signals,
            text, waiter>>

\* Parser::parse_comment: one turn of its loop
parse_comment(r) ==
    LET tok == r.tok
    IN  /\ lexer' = r.lexer
        /\ parser' = CASE r.lexer.hang -> never_returns(tok)
                       [] tok.t = "Word" -> at(tok, "comment")
                       [] IsKw(tok, "End") -> at(tok, "stmt")
                       [] OTHER -> syntax_error(tok, r.lexer)

ParseComment ==
    /\ parser.pc = "comment"
    /\ parse_comment(pop(text, lexer, "Comment"))
    /\ UNCHANGED <<scope, signals, timestamps, now, timescale, panicked, ret, pquiet>>

\* Parser::parse_scope: one of its three pops; the last one creates the scope
parse_scope(r) ==
    LET tok == r.tok
    IN  /\ lexer' = r.lexer
        /\ CASE r.lexer.hang ->
                 parser' = never_returns(tok) /\ UNCHANGED scope
             [] parser.pc = "scope_type" /\ tok.t = "Identifier" ->
                 parser' = at(tok, "scope_id") /\ UNCHANGED scope
             [] parser.pc = "scope_id" /\ tok.t = "Identifier" ->
                 /\ parser' = [at(tok, "scope_end") EXCEPT !.ident = tok.w]
                 /\ UNCHANGED scope
             [] parser.pc = "scope_end" /\ IsKw(tok, "End") ->
                 /\ parser' = [at(tok, "stmt") EXCEPT !.scope = Append(@, parser.ident)]
                 /\ create_scope(Append(parser.scope, parser.ident))
             [] OTHER ->
                 parser' = syntax_error(tok, r.lexer) /\ UNCHANGED scope

ParseScope ==
    /\ parser.pc \in {"scope_type", "scope_id", "scope_end"}
    /\ parse_scope(pop(text, lexer, IF parser.pc = "scope_end" THEN "Stmt" ELSE "Id"))
    /\ UNCHANGED <<signals, timestamps, now, timescale, panicked, ret, pquiet>>

\* Parser::parse_upscope; Vec::pop of an empty vector does nothing
parse_upscope(r) ==
    LET tok == r.tok
    IN  /\ lexer' = r.lexer
        /\ parser' = CASE r.lexer.hang -> never_returns(tok)
                       [] IsKw(tok, "End") ->
                             [at(tok, "stmt") EXCEPT
                                 !.scope = SubSeq(@, 1, Max(Len(@) - 1, 0))]
                       [] OTHER -> syntax_error(tok, r.lexer)

ParseUpscope ==
    /\ parser.pc = "upscope_end"
    /\ parse_upscope(pop(text, lexer, "Stmt"))
    /\ UNCHANGED <<scope, signals, timestamps, now, timescale, panicked, ret, pquiet>>


\* Parser::declare_new_var; SignalDB::declare_signal panics when the scope is missing
declare_new_var(sig) == declare_signal(parser.scope, sig)

\* The context of the next pop of Parser::parse_var
var_context ==
    CASE parser.pc = "var_shortid" -> "ShortId"
      [] parser.pc = "var_range" -> "IdRange"
      [] parser.pc = "var_end" -> "Stmt"
      [] OTHER -> "Id"

\* Parser::parse_var: one of its pops; the one reading $end declares the signal
parse_var(r) ==
    LET tok == r.tok
        declared == at(tok, IF get_scope_by_path(scope, parser.scope)
                            THEN "stmt" ELSE "panic")
    IN  /\ lexer' = r.lexer
        /\ CASE r.lexer.hang ->
                 parser' = never_returns(tok) /\ UNCHANGED <<scope, signals, panicked>>
             [] parser.pc = "var_type" /\ tok.t = "Identifier" ->
                 parser' = at(tok, "var_width") /\ UNCHANGED <<scope, signals, panicked>>
             [] parser.pc = "var_width" /\ tok.t = "Integer" ->
                 /\ parser' = [at(tok, "var_shortid") EXCEPT !.width = tok.n]
                 /\ UNCHANGED <<scope, signals, panicked>>
             [] parser.pc = "var_shortid" /\ tok.t = "Identifier" ->
                 /\ parser' = [at(tok, "var_ident") EXCEPT !.short_ident = tok.w]
                 /\ UNCHANGED <<scope, signals, panicked>>
             [] parser.pc = "var_ident" /\ tok.t = "Identifier" ->
                 /\ parser' = [at(tok, "var_range") EXCEPT !.ident = tok.w]
                 /\ UNCHANGED <<scope, signals, panicked>>
             [] parser.pc = "var_ident" /\ tok.t = "IdentifierRange" ->
                 /\ parser' = [at(tok, "var_end") EXCEPT !.ident = tok.w]
                 /\ UNCHANGED <<scope, signals, panicked>>
             [] parser.pc = "var_range" /\ tok.t = "Range" ->
                 parser' = at(tok, "var_end") /\ UNCHANGED <<scope, signals, panicked>>
             [] parser.pc \in {"var_range", "var_end"} /\ IsKw(tok, "End") ->
                 /\ declare_new_var(NewSignal(parser.short_ident, parser.ident,
                                              parser.width))
                 /\ parser' = declared
             [] OTHER ->
                 /\ parser' = syntax_error(tok, r.lexer)
                 /\ UNCHANGED <<scope, signals, panicked>>

ParseVar ==
    /\ parser.pc \in {"var_type", "var_width", "var_shortid", "var_ident", "var_range",
                      "var_end"}
    /\ parse_var(pop(text, lexer, var_context))
    /\ UNCHANGED <<timestamps, now, timescale, ret, pquiet>>

\* Parser::parse_value_change; it returns to the loop that called it
parse_value_change(r) ==
    LET tok == r.tok
    IN  /\ lexer' = r.lexer
        /\ CASE r.lexer.hang ->
                 /\ parser' = never_returns(tok)
                 /\ UNCHANGED <<signals, timestamps, now, ret>>
             [] tok.t = "Identifier" ->
                 /\ set_current_value(tok.w, parser.value)
                 /\ parser' = IF ret' = "Ok" THEN at(tok, parser.back)
                              ELSE syntax_error(tok, r.lexer)
             [] OTHER ->
                 /\ parser' = syntax_error(tok, r.lexer)
                 /\ UNCHANGED <<signals, timestamps, now, ret>>

ParseValueChange ==
    /\ parser.pc = "value_id"
    /\ parse_value_change(pop(text, lexer, "ShortId"))
    /\ UNCHANGED <<scope, timescale, panicked, searches, worker, status, initialized, valid,
                   lock_initialized, lock_valid, lock_signals, text, waiter>>

\* Parser::parse_dumpvars: one turn of its loop
parse_dumpvars(r) ==
    LET tok == r.tok
    IN  /\ lexer' = r.lexer
        /\ CASE r.lexer.hang ->
                 /\ parser' = never_returns(tok)
                 /\ UNCHANGED <<signals, timestamps, now, ret, initialized, waiter>>
             [] tok.t = "Value" ->
                 /\ parser' = [at(tok, "value_id") EXCEPT !.value = tok.v,
                                                           !.back = "dumpvars"]
                 /\ UNCHANGED <<signals, timestamps, now, ret, initialized, waiter>>
             [] tok.t = "ValueIdentifier" ->
                 /\ set_current_value(tok.w, tok.v)
                 /\ parser' = IF ret' = "Ok" THEN at(tok, "dumpvars")
                              ELSE syntax_error(tok, r.lexer)
                 /\ UNCHANGED <<initialized, waiter>>
             [] IsKw(tok, "End") ->
                 /\ mark_as_initialized
                 /\ parser' = at(tok, "stmt")
                 /\ UNCHANGED <<signals, timestamps, now, ret>>
             [] OTHER ->
                 /\ parser' = syntax_error(tok, r.lexer)
                 /\ UNCHANGED <<signals, timestamps, now, ret, initialized, waiter>>

ParseDumpvars ==
    /\ parser.pc = "dumpvars"
    /\ parse_dumpvars(pop(text, lexer, "Value"))
    /\ UNCHANGED <<scope, quiet, status, valid, lock_initialized, lock_valid, lock_signals, panicked,
                   text>>

\* Parser::parse_timescale: one of its pops; with $end read, Parser::parse keeps the
\* timescale and hands it to the store. Scale::from_str of an unknown unit is
\* unwrapped: the thread panics.
parse_timescale(r) ==
    LET tok == r.tok
    IN  /\ lexer' = r.lexer
        /\ CASE r.lexer.hang ->
                 parser' = never_returns(tok) /\ UNCHANGED <<timescale, panicked>>
             [] tok.t = "Panic" ->
                 /\ parser' = at(tok, "panic")
                 /\ panicked' = TRUE
                 /\ UNCHANGED timescale
             [] parser.pc = "ts_first" /\ tok.t = "Integer" ->
                 /\ parser' = [at(tok, "ts_scale") EXCEPT !.times = tok.n]
                 /\ UNCHANGED <<timescale, panicked>>
             [] parser.pc = "ts_first" /\ tok.t = "Timescale" ->
                 /\ parser' = [at(tok, "ts_end") EXCEPT
                                  !.new_timescale = [n |-> tok.n, scale |-> tok.scale]]
                 /\ UNCHANGED <<timescale, panicked>>
             [] parser.pc = "ts_scale" /\ tok.t = "Timescale" ->
                 /\ parser' = [at(tok, "ts_end") EXCEPT
                                  !.new_timescale = [n |-> tok.n * parser.times,
                                                     scale |-> tok.scale]]
                 /\ UNCHANGED <<timescale, panicked>>
             [] parser.pc = "ts_end" /\ IsKw(tok, "End") ->
                 /\ parser' = [at(tok, "stmt") EXCEPT !.timescale = parser.new_timescale]
                 /\ set_timescale(parser.new_timescale)
                 /\ UNCHANGED panicked
             [] OTHER ->
                 /\ parser' = syntax_error(tok, r.lexer)
                 /\ UNCHANGED <<timescale, panicked>>

ParseTimescale ==
    /\ parser.pc \in {"ts_first", "ts_scale", "ts_end"}
    /\ parse_timescale(pop(text, lexer, "Timescale"))
    /\ UNCHANGED <<scope, signals, timestamps, now, ret, pquiet>>

\* SignalDB::parse_vcd_with_limit, the closure run on a SyntaxError, in three steps:
\* set_status with the error's text,
ParseErrSetStatus ==
    /\ parser.pc = "fail_status"
    /\ set_status(SyntaxErrorStatus(parser.err))
    /\ parser' = [parser EXCEPT !.pc = "fail_invalid"]
    /\ UNCHANGED <<scope, signals, timestamps, now, quiet, initialized, valid,
                   lock_initialized, lock_valid, lock_signals, panicked, ret, text, lexer, waiter>>

\* mark_as_invalid,
ParseErrMarkInvalid ==
    /\ parser.pc = "fail_invalid"
    /\ mark_as_invalid
    /\ parser' = [parser EXCEPT !.pc = "fail_init"]
    /\ UNCHANGED <<scope, signals, timestamps, now, quiet, status, initialized,
                   lock_initialized, lock_valid, lock_signals, panicked, ret, text, lexer, waiter>>

\* mark_as_initialized; the error is then returned
ParseErrMarkInitialized ==
    /\ parser.pc = "fail_init"
    /\ mark_as_initialized
    /\ parser' = [parser EXCEPT !.pc = "done_err"]
    /\ UNCHANGED <<scope, signals, timestamps, now, quiet, status, valid,
                   lock_initialized, lock_valid, lock_signals, panicked, ret, text, lexer>>

\* SignalDB::parse_vcd_with_limit after a parse that returned Ok
ParseReady ==
    /\ parser.pc = "ok_status"
    /\ set_status(ReadyStatus(Len(timestamps)))
    /\ parser' = [parser EXCEPT !.pc = "done_ok"]
    /\ UNCHANGED <<scope, signals, timestamps, now, quiet, initialized, valid,
                   lock_initialized, lock_valid, lock_signals, panicked, ret, text, lexer, waiter>>

(***************************************************************************)
(* SpecVcd: AsyncSignalDB::parse_vcd runs the parser in a thread of its own *)
(* while other threads call wait_until_initialized                          *)
(***************************************************************************)
W_1ps == <<"1", "p", "s">>
W_module == <<"m", "o", "d", "u", "l", "e">>
W_logic == <<"l", "o", "g", "i", "c">>
W_wire == <<"w", "i", "r", "e">>
W_1 == <<"1">>
W_hash == <<"#">>
W_foo == <<"f", "o", "o">>
W_b0 == <<"b", "0">>
W_b1 == <<"b", "1">>
W_t42 == <<"#", "4", "2">>
W_t1338 == <<"#", "1", "3", "3", "8">>
W_garbage == <<"g", "a", "r", "b", "a", "g", "e">>

RECURSIVE Flatten(_)
Flatten(seqs) == IF seqs = <<>> THEN <<>> ELSE Head(seqs) \o Flatten(Tail(seqs))

\* A line of text: its words separated by spaces, and a newline
Line(words) ==
    Flatten([i \in 1..Len(words) |-> words[i] \o (IF i < Len(words) THEN <<" ">> ELSE <<"\n">>)])

\* A file: an empty first line, as in the dumps of the repository's tests, then the lines
File(lines) == <<"\n">> \o Flatten([i \in 1..Len(lines) |-> Line(lines[i])])

\* The declarations of a 1-bit wire # and the line ending them
Declarations ==
    << <<W_timescale, W_1ps, W_end>>,
       <<W_scope, W_module, W_logic, W_end>>,
       <<W_var, W_wire, W_1, W_hash, W_foo, W_end>>,
       <<W_upscope, W_end>> >>

EndDefinitions == << <<W_enddefinitions, W_end>> >>

\* The initial value of the wire
DumpVars == << <<W_dumpvars>>, <<W_b1, W_hash>>, <<W_end>> >>

\* Its transitions at 42 and 1338
Changes == << <<W_t42>>, <<W_b0, W_hash>>, <<W_t1338>>, <<W_b1, W_hash>> >>

\* The dump of the search example, and the same with the $dumpvars block placed
\* before $enddefinitions
VcdLines == Declarations \o EndDefinitions \o DumpVars \o Changes
VcdLinesDumpFirst == Declarations \o DumpVars \o EndDefinitions \o Changes

\* The dump with a stray line after its first k lines
Stray(lines, k) == VecInsert(lines, k, <<W_garbage>>)

ValidFiles == {File(VcdLines), File(VcdLinesDumpFirst)}

StrayFiles ==
    {File(Stray(VcdLines, k)) : k \in 0..Len(VcdLines)}
        \cup {File(Stray(VcdLinesDumpFirst, k)) : k \in 0..Len(VcdLinesDumpFirst)}

\* The stray line comes before the line at which the parser releases the latch
EarlyStrayFiles ==
    {File(Stray(VcdLines, k)) : k \in 0..Len(Declarations)}
        \cup {File(Stray(VcdLinesDumpFirst, k)) : k \in 0..(Len(Declarations) + 2)}

\* The input of the parser's test `fail`, and dumps with a value change for an
\* identifier that is not declared, in the $dumpvars block and after a timestamp
W_unknown == <<"?">>
W_0unknown == <<"0", "?">>

FailText == W_end

UndeclaredFiles ==
    {File(Declarations \o EndDefinitions \o
          << <<W_dumpvars>>, <<W_b1, W_unknown>>, <<W_end>> >>),
     File(Declarations \o EndDefinitions \o DumpVars \o << <<W_t42>>, <<W_0unknown>> >>)}

VcdFiles == ValidFiles \cup StrayFiles \cup UndeclaredFiles \cup {FailText}

\* The limits given to parse_vcd_with_limit
Limits == {[some |-> FALSE, v |-> 0], [some |-> TRUE, v |-> 42]}

InitVcd ==
    /\ DbNew
    /\ text \in VcdFiles
    /\ lexer = NewLexer
    /\ parser \in {[IdleParser EXCEPT !.limit = l] : l \in Limits}
    /\ waiter = [w \in Waiters |-> IdleWaiter]
    /\ worker = IdleWorker

NextVcd ==
    \/ ParseVcd
    \/ ParseStmt
    \/ ParseComment
    \/ ParseScope
    \/ ParseUpscope
    \/ ParseVar
    \/ ParseValueChange
    \/ ParseDumpvars
    \/ ParseTimescale
    \/ ParseErrSetStatus
    \/ ParseErrMarkInvalid
    \/ ParseErrMarkInitialized
    \/ ParseReady
    \/ WaiterEnters
    \/ WaiterWakesSpuriously
    \/ WaiterChecksValid
    \/ WaiterReadsStatus

SpecVcd == InitVcd /\ [][NextVcd]_vars

(***************************************************************************)
(* Properties of a parse under SpecVcd                                     *)
(***************************************************************************)
\* The parse has returned a SyntaxError, or is about to
Failing == parser.pc \in {"fail_status", "fail_invalid", "fail_init", "done_err"}

\* The text of the SyntaxError the parse stopped with
ErrorText == [msg |-> "Syntax Error", line |-> parser.err, n |-> 0]

C6_State ==
    /\ Failing => parser.err = get_current_line(lexer)
    /\ parser.pc \in {"fail_invalid", "fail_init", "done_err"} => status = ErrorText
    /\ parser.pc \in {"fail_init", "done_err"} => ~valid
    /\ parser.pc = "done_err" => initialized
    /\ ~valid => status = ErrorText
    /\ ~valid /\ initialized => parser.pc \in {"fail_init", "done_err"}

C6_Step ==
    /\ Failing => lexer' = lexer
    /\ (parser.pc = "stmt" /\ lexer' # lexer
            /\ (parser'.tok.t = "Word" \/ IsKw(parser'.tok, "End")))
        => parser'.pc = "fail_status"
    /\ (parser.pc \in {"stmt", "dumpvars", "value_id"} /\ lexer' # lexer
            /\ parser'.tok.t \in {"ValueIdentifier", "Identifier"}
            /\ parser'.tok.w \notin DOMAIN signals)
        => parser'.pc = "fail_status"
    /\ \A w \in Waiters :
        (Returns(w) /\ parser.pc = "done_err")
            => waiter'[w].result = "InitializationError" /\ waiter'[w].msg = ErrorText

\* C6: on a token that is not valid in statement context, or a value change for an
\* identifier that is not declared, the parse stops consuming input and returns a
\* SyntaxError quoting the current line; on return the store is invalid, its latch is
\* released and its status is the error text; the status is written before the
\* validity flag is cleared and the flag is cleared before the latch is released, so
\* a waiter released by the failure returns the error with that text.
C6_ParseErrorPath == [](C6_State) /\ [][C6_Step]_vars

\* The parse of `$end` failed and a waiter returned the error quoting that line
C6_Witness ==
    /\ text = FailText
    /\ parser.pc = "done_err"
    /\ status = [msg |-> "Syntax Error", line |-> W_end, n |-> 0]
    /\ \E w \in Waiters :
        /\ waiter[w].pc = "done"
        /\ waiter[w].result = "InitializationError"
        /\ waiter[w].msg = status

\* The wait returned the error with the status the failed parse set
FailsWithParseStatus(w) ==
    /\ waiter[w].result = "InitializationError"
    /\ Failing
    /\ waiter[w].msg = ErrorText

\* C7: when the parser thread is fed a dump made invalid by a stray line at any
\* position, every wait_until_initialized called concurrently with the parse returns
\* an InitializationError whose message is the status set by the failed parse.
C7_EveryWaitFails ==
    (text \in StrayFiles /\ ~parser.limit.some)
        => \A w \in Waiters : waiter[w].pc = "done" => FailsWithParseStatus(w)

\* C7 as amended: when the stray line comes before the line at which the parser
\* releases the latch ($enddefinitions, or the $end closing the first $dumpvars
\* block), every wait_until_initialized called concurrently with the parse returns an
\* InitializationError whose message is the status set by the failed parse; wherever
\* the stray line is, a wait that returns an error returns it with that status.
C7_WaitFailsBeforeLatch ==
    (text \in StrayFiles /\ ~parser.limit.some)
        => \A w \in Waiters :
            waiter[w].pc = "done" =>
                /\ text \in EarlyStrayFiles => FailsWithParseStatus(w)
                /\ waiter[w].result = "InitializationError" => FailsWithParseStatus(w)

\* The stray line followed the declarations, and every waiter returned the error
C7_Witness ==
    /\ text = File(Stray(VcdLines, Len(Declarations)))
    /\ ~parser.limit.some
    /\ parser.pc = "done_err"
    /\ parser.err = Line(<<W_garbage>>)
    /\ AllWaitersDone
    /\ \A w \in Waiters : FailsWithParseStatus(w)

\* The parser reads $enddefinitions
ReadsEndDefinitions ==
    parser.pc = "stmt" /\ parser'.pc = "comment" /\ IsKw(parser'.tok, "EndDefinitions")

\* The parser reads the $end closing a $dumpvars block
ClosesDumpvars ==
    parser.pc = "dumpvars" /\ parser'.pc = "stmt" /\ IsKw(parser'.tok, "End")

C10_Step ==
    /\ text \in ValidFiles =>
        /\ (~initialized /\ initialized') => (ReadsEndDefinitions \/ ClosesDumpvars)
        /\ (ReadsEndDefinitions \/ ClosesDumpvars) => initialized'
    /\ initialized => initialized'

\* C10: during a parse that meets no syntax error the latch becomes true when the
\* parser reads $enddefinitions or the $end closing the first $dumpvars block,
\* whichever comes first, and not earlier; once true it is never reset.
C10_LatchSetOnce == [][C10_Step]_vars

\* The $dumpvars block came before $enddefinitions and its $end released the latch
C10_Witness ==
    /\ text = File(VcdLinesDumpFirst)
    /\ initialized
    /\ parser.pc = "stmt"
    /\ IsKw(parser.tok, "End")
    /\ parser.back = "dumpvars"
    /\ \E w \in Waiters : waiter[w].pc = "done" /\ waiter[w].result = "Ok"

(***************************************************************************)
(* Search (search/expr.rs, search/types.rs)                                *)
(***************************************************************************)
\* ValueAst
ValueLiteral(v) == [k |-> "Literal", v |-> v, id |-> <<>>]
ValueId(id) == [k |-> "Id", v |-> None, id |-> id]

\* ExprAst; the fields a kind does not use are empty
Expr(op) == [op |-> op, id |-> <<>>, v |-> ValueLiteral(None), l |-> <<>>, r |-> <<>>, t |-> 0]

Equal(id, v) == [Expr("Equal") EXCEPT !.id = id, !.v = v]
Transition(id, v) == [Expr("Transition") EXCEPT !.id = id, !.v = v]
AnyTransition(id) == [Expr("AnyTransition") EXCEPT !.id = id]
Not(e) == [Expr("Not") EXCEPT !.l = e]
And(le, re) == [Expr("And") EXCEPT !.l = le, !.r = re]
Or(le, re) == [Expr("Or") EXCEPT !.l = le, !.r = re]
After(t) == [Expr("After") EXCEPT !.t = t]
Before(t) == [Expr("Before") EXCEPT !.t = t]

\* ExprAst::from_str on the expressions the searches below submit, as the tests
\* of search/expr.rs give them; an incomplete expression is an error
ExprAst_from_str(expr) ==
    CASE expr = "$# <- 0" -> [ok |-> TRUE, ast |-> Transition(<<"#">>, ValueLiteral(new_0))]
      [] expr = "$0 <- 1" -> [ok |-> TRUE, ast |-> Transition(<<"0">>, ValueLiteral(new_1))]
      [] expr = "$0 = 1" -> [ok |-> TRUE, ast |-> Equal(<<"0">>, ValueLiteral(new_1))]
      [] expr = "$0 <- 1 and after 1" ->
            [ok |-> TRUE, ast |-> And(Transition(<<"0">>, ValueLiteral(new_1)), After(1))]
      [] expr = "($0 = 1 or $0 <- 0) and before 2" ->
            [ok |-> TRUE,
             ast |-> And(Or(Equal(<<"0">>, ValueLiteral(new_1)),
                            Transition(<<"0">>, ValueLiteral(new_0))),
                         Before(2))]
      [] expr = "$1 <- 1" -> [ok |-> TRUE, ast |-> Transition(<<"1">>, ValueLiteral(new_1))]
      [] expr = "$! <- 0" -> [ok |-> TRUE, ast |-> Transition(<<"!">>, ValueLiteral(new_0))]
      [] expr = "before 0 and $! = 1" ->
            [ok |-> TRUE, ast |-> And(Before(0), Equal(<<"!">>, ValueLiteral(new_1)))]
      [] OTHER -> [ok |-> FALSE, ast |-> Expr("None")]

\* TimeDescr
Point(t) == [k |-> "Point", begin |-> t, end |-> t]
Period(begin, end) == [k |-> "Period", begin |-> begin, end |-> end]

\* Search::new
NewSearch(ast) ==
    [findings |-> <<>>, expr |-> ast, current_period |-> NoTimestamp,
     cursor |-> SomeTimestamp(0)]

\* Result<_, SignalNotFound> of a query of the store
QueryErr == [ok |-> FALSE, v |-> None]
QueryOk(v) == [ok |-> TRUE, v |-> v]

\* SignalDB::value_at
db_value_at(signal_id, timestamp) ==
    IF signal_id \in DOMAIN signals
    THEN QueryOk(value_at(signals[signal_id], timestamp))
    ELSE QueryErr

\* SignalDB::event_at
db_event_at(signal_id, timestamp) ==
    IF signal_id \in DOMAIN signals
    THEN QueryOk(event_at(signals[signal_id], timestamp))
    ELSE QueryErr

\* SignalDB::get_next_rising_edge
db_get_next_rising_edge(signal_id, timestamp) ==
    IF signal_id \in DOMAIN signals
    THEN QueryOk(get_next_rising_edge(signals[signal_id], timestamp))
    ELSE QueryErr

\* SignalDB::get_previous_rising_edge
db_get_previous_rising_edge(signal_id, timestamp) ==
    IF signal_id \in DOMAIN signals
    THEN QueryOk(get_previous_rising_edge(signals[signal_id], timestamp))
    ELSE QueryErr

\* SignalDB::get_next_falling_edge
db_get_next_falling_edge(signal_id, timestamp) ==
    IF signal_id \in DOMAIN signals
    THEN QueryOk(get_next_falling_edge(signals[signal_id], timestamp))
    ELSE QueryErr

\* SignalDB::get_first_event
db_get_first_event(signal_id) ==
    IF signal_id \in DOMAIN signals
    THEN QueryOk(get_first_event(signals[signal_id]))
    ELSE QueryErr

\* SignalDB::get_last_event
db_get_last_event(signal_id) ==
    IF signal_id \in DOMAIN signals
    THEN QueryOk(get_last_event(signals[signal_id]))
    ELSE QueryErr

\* SignalDB::events_between: a period that ends after the current time is unknown,
\* and the signal is looked up only for a period that is known
db_events_between(signal_id, begin, end) ==
    IF end > now
    THEN QueryOk([before |-> invalid, count |-> 0, after |-> invalid])
    ELSE IF signal_id \in DOMAIN signals
         THEN QueryOk(events_between(signals[signal_id], begin, end))
         ELSE QueryErr

\* Search::eval_value_at
eval_value_at(value, timestamp) ==
    IF value.k = "Literal" THEN QueryOk(value.v) ELSE db_value_at(value.id, timestamp)

\* EvalResult, or the error of a query
EvalErr == [ok |-> FALSE, result |-> FALSE, ty |-> "Level"]
EvalResult(result, ty) == [ok |-> TRUE, result |-> result, ty |-> ty]

\* ExprType::bitor
TyOr(a, b) == IF a = "Transition" \/ b = "Transition" THEN "Transition" ELSE "Level"

\* EvalResult::bitor
EvalBitOr(lhs, rhs) ==
    LET result == lhs.result \/ rhs.result
    IN  EvalResult(result,
                   IF result
                   THEN IF lhs.result = rhs.result THEN TyOr(lhs.ty, rhs.ty)
                        ELSE IF lhs.result THEN lhs.ty ELSE rhs.ty
                   ELSE "Level")

\* Search::eval_at, given the results of its sub-expressions
eval_equal(lhs, rhs) ==
    IF lhs.ok /\ rhs.ok THEN EvalResult(ValEq(lhs.v, rhs.v), "Level") ELSE EvalErr

eval_transition(evt, rhs) ==
    IF ~evt.ok THEN EvalErr
    ELSE IF evt.v.k = "None" THEN EvalResult(FALSE, "Transition")
    ELSE IF ~rhs.ok THEN EvalErr
    ELSE EvalResult(ValEq(evt.v, rhs.v), "Transition")

eval_any_transition(evt) ==
    IF evt.ok THEN EvalResult(evt.v.k # "None", "Transition") ELSE EvalErr

eval_not(er) ==
    IF er.ok THEN EvalResult(~er.result, IF ~er.result THEN er.ty ELSE "Level") ELSE EvalErr

\* Search::eval_at
RECURSIVE eval_at(_, _)
eval_at(expr, timestamp) ==
    CASE expr.op = "Equal" ->
            eval_equal(db_value_at(expr.id, timestamp), eval_value_at(expr.v, timestamp))
      [] expr.op = "Transition" ->
            eval_transition(db_event_at(expr.id, timestamp),
                            eval_value_at(expr.v, timestamp))
      [] expr.op = "AnyTransition" -> eval_any_transition(db_event_at(expr.id, timestamp))
      [] expr.op = "And" ->
            LET ler == eval_at(expr.l, timestamp)
            IN  IF ~ler.ok \/ ~ler.result THEN ler
                ELSE LET rer == eval_at(expr.r, timestamp)
                     IN  IF rer.ok
                         THEN EvalResult(ler.result /\ rer.result, TyOr(ler.ty, rer.ty))
                         ELSE EvalErr
      [] expr.op = "Or" ->
            LET ler == eval_at(expr.l, timestamp)
            IN  IF ~ler.ok \/ ler.result THEN ler
                ELSE LET rer == eval_at(expr.r, timestamp)
                     IN  IF rer.ok THEN EvalBitOr(ler, rer) ELSE EvalErr
      [] expr.op = "Not" -> eval_not(eval_at(expr.l, timestamp))
      [] expr.op = "After" -> EvalResult(timestamp > expr.t, "Level")
      [] expr.op = "Before" -> EvalResult(timestamp < expr.t, "Level")

\* search_at recording a point whatever the result
searched_at_any_result(search, res, timestamp) ==
    [search EXCEPT
        !.findings = IF res.ty = "Transition" THEN Append(@, Point(timestamp)) ELSE @,
        !.cursor = SomeTimestamp(timestamp)]

\* Search::search_at once the expression is evaluated
searched_at(search, res, timestamp) ==
    LET found == res.result /\ ~search.current_period.some
        closed == ~res.result /\ search.current_period.some
    IN  [search EXCEPT
            !.findings =
                IF res.ty = "Transition" /\ found THEN Append(@, Point(timestamp))
                ELSE IF res.ty = "Level" /\ closed
                     THEN Append(@, Period(search.current_period.t, timestamp))
                ELSE @,
            !.current_period =
                IF res.ty = "Level" /\ found THEN SomeTimestamp(timestamp)
                ELSE IF res.ty = "Level" /\ closed THEN NoTimestamp
                ELSE @,
            !.cursor = SomeTimestamp(timestamp)]

\* search_at without the test of the cursor
search_at_result_any_time(search, res, timestamp) ==
    IF ~res.ok THEN [ok |-> FALSE, search |-> search]
    ELSE [ok |-> TRUE, search |-> searched_at(search, res, timestamp)]

\* Search::search_at: the search after the call, and whether it returned Ok
search_at_result(search, res, timestamp) ==
    IF search.cursor.some /\ timestamp < search.cursor.t THEN [ok |-> TRUE, search |-> search]
    ELSE IF ~res.ok THEN [ok |-> FALSE, search |-> search]
    ELSE [ok |-> TRUE, search |-> searched_at(search, res, timestamp)]

search_at(search, timestamp) ==
    search_at_result(search, eval_at(search.expr, timestamp), timestamp)

\* Search::finish
finish(search) == [search EXCEPT !.cursor = NoTimestamp]

\* Search::get_first_finding
get_first_finding(search) ==
    IF search.findings = <<>> THEN NoTimestamp ELSE SomeTimestamp(search.findings[1].begin)

\* Search::get_last_finding
get_last_finding(search) ==
    IF search.findings = <<>> THEN NoTimestamp
    ELSE SomeTimestamp(search.findings[Len(search.findings)].end)

\* Search::search_all, the loop over the iterator of SignalDB::get_timestamps from
\* its index i (1-based): the first error ends the loop
RECURSIVE SearchAllLoop(_, _)
SearchAllLoop(r, i) ==
    IF ~r.ok \/ i > Len(timestamps) THEN r
    ELSE SearchAllLoop(search_at(r.search, timestamps[i]), i + 1)

\* Search::search_all: the search after the call, and whether it returned Ok; an
\* error returns before Search::finish
search_all(search) ==
    LET cleared == [search EXCEPT !.findings = <<>>, !.current_period = NoTimestamp]
        r == SearchAllLoop([ok |-> TRUE, search |-> cleared], 1)
    IN  IF r.ok THEN [ok |-> TRUE, search |-> finish(r.search)] ELSE r

\* A key that finds a period only at its begin
FindingKey_begin(finding, timestamp) == finding.begin

\* The key Search::search_finding gives a finding when it looks for the timestamp
FindingKey(finding, timestamp) ==
    IF finding.k = "Point" THEN finding.begin
    ELSE IF finding.begin <= timestamp /\ timestamp < finding.end THEN timestamp
    ELSE IF timestamp <= finding.begin THEN finding.begin
    ELSE finding.end - 1

\* Search::search_finding: Ok(index) or Err(index), 0-based
search_finding(search, timestamp) ==
    binary_search_by_key(
        [i \in 1..Len(search.findings) |->
            [timestamp |-> FindingKey(search.findings[i], timestamp)]],
        timestamp)

\* FindingsSummary; n is the count of Complex(n)
Summary(k) == [k |-> k, n |-> 0]
Complex(n) == [k |-> "Complex", n |-> n]

\* Search::findings_between, once the open period is dealt with
FindingsSeek(search, begin, end) ==
    LET b == search_finding(search, begin - 1)
        e == search_finding(search, end - 1)
        bi == b.index
        ei == e.index
    IN  CASE ~b.ok /\ ~e.ok ->
                IF bi = ei THEN Summary("Nothing")
                ELSE IF usize_sub(ei, bi) = 1
                     THEN IF search.findings[bi + 1].k = "Period" THEN Complex(1)
                          ELSE Summary("Timestamp")
                     ELSE Complex(usize_sub(ei, bi))
          [] b.ok /\ ~e.ok ->
                IF search.findings[bi + 1].k = "Point" THEN Summary("Nothing")
                ELSE Summary("RangeEnd")
          [] ~b.ok /\ e.ok ->
                IF search.findings[ei + 1].k = "Period"
                THEN IF search.findings[ei + 1].begin = end THEN Summary("Nothing")
                     ELSE IF search.findings[ei + 1].end < end THEN Summary("RangeEnd")
                     ELSE Summary("RangeBegin")
                ELSE Summary("Timestamp")
          [] b.ok /\ e.ok ->
                IF search.findings[bi + 1].k = "Period"
                THEN IF search.findings[bi + 1].begin = begin THEN Summary("RangeBegin")
                     ELSE IF ei = bi THEN Summary("Range")
                     ELSE Complex(usize_sub(ei, bi))
                ELSE Complex(usize_sub(ei, bi))

\* Search::findings_between
findings_between(search, begin, end) ==
    LET cp == search.current_period
    IN  IF cp.some /\ begin <= cp.t /\ cp.t < end THEN Summary("RangeBegin")
        ELSE IF cp.some /\ search.cursor.some /\ cp.t <= begin /\ end <= search.cursor.t
             THEN Summary("Range")
        ELSE IF cp.some /\ ~search.cursor.some /\ cp.t <= begin THEN Summary("Range")
        ELSE FindingsSeek(search, begin, end)

\* findings.get(index) mapped to the finding's begin, or else the begin of the open
\* period when `usable` says so
BeginAt(search, index, usable) ==
    IF index < Len(search.findings) THEN SomeTimestamp(search.findings[index + 1].begin)
    ELSE IF search.current_period.some /\ usable THEN search.current_period
    ELSE NoTimestamp

\* get_next_finding staying on the finding that holds `from`
get_next_finding_same(search, from) ==
    BeginAt(search, search_finding(search, from).index,
            search.current_period.some /\ search.current_period.t > from)

\* Search::get_next_finding
get_next_finding(search, from) ==
    LET seek == search_finding(search, from)
        index == IF seek.ok THEN seek.index + 1 ELSE seek.index
    IN  BeginAt(search, index, search.current_period.some /\ search.current_period.t > from)

\* Search::get_end_of_next_finding
get_end_of_next_finding(search, from) ==
    LET seek == search_finding(search, from)
        index == IF seek.ok THEN seek.index + 1 ELSE seek.index
    IN  IF index < Len(search.findings) THEN SomeTimestamp(search.findings[index + 1].end)
        ELSE NoTimestamp

\* Search::get_previous_finding
get_previous_finding(search, from) ==
    LET seek == search_finding(search, from - 1)
        index == IF seek.ok THEN seek.index
                 ELSE IF seek.index > 0 THEN seek.index - 1 ELSE seek.index
    IN  BeginAt(search, index, search.current_period.some /\ search.current_period.t < from)

(***************************************************************************)
(* The search worker (AsyncSignalDB::search) and SpecSearch: the parser     *)
(* thread fills the store, the main thread waits for the latch and submits  *)
(* a search, which a worker thread runs over the timestamps                 *)
(***************************************************************************)
\* format!("Cannot initialize search: ..."), format!("Invalid search expression: ...")
CannotInitializeSearch == Status("Cannot initialize search")
InvalidSearchExpression == Status("Invalid search expression")

\* SignalDB::search_init: the map of searches after the call; an expression that does
\* not parse leaves it as it is
search_init(expr) ==
    IF ExprAst_from_str(expr).ok
    THEN [e \in DOMAIN searches \cup {expr} |->
            IF e = expr THEN NewSearch(ExprAst_from_str(expr).ast) ELSE searches[e]]
    ELSE searches

\* SignalDB::search: an expression that does not parse, or a search that fails, leaves
\* the map of searches as it is
db_search(expr) ==
    LET parsed == ExprAst_from_str(expr)
        r == search_all(NewSearch(parsed.ast))
    IN  IF ~parsed.ok THEN ret' = "SyntaxError" /\ UNCHANGED searches
        ELSE IF ~r.ok THEN ret' = "SignalNotFound" /\ UNCHANGED searches
        ELSE /\ searches' = [e \in DOMAIN searches \cup {expr} |->
                                IF e = expr THEN r.search ELSE searches[e]]
             /\ ret' = "Ok"

\* SignalDB::get_next_finding
db_get_next_finding(expr, timestamp) ==
    IF expr \in DOMAIN searches
    THEN [ok |-> TRUE, finding |-> get_next_finding(searches[expr], timestamp)]
    ELSE [ok |-> FALSE, finding |-> NoTimestamp]

\* SignalDB::get_previous_finding
db_get_previous_finding(expr, timestamp) ==
    IF expr \in DOMAIN searches
    THEN [ok |-> TRUE, finding |-> get_previous_finding(searches[expr], timestamp)]
    ELSE [ok |-> FALSE, finding |-> NoTimestamp]

\* SignalDB::get_first_finding
db_get_first_finding(expr) ==
    IF expr \in DOMAIN searches
    THEN [ok |-> TRUE, finding |-> get_first_finding(searches[expr])]
    ELSE [ok |-> FALSE, finding |-> NoTimestamp]

\* SignalDB::get_last_finding
db_get_last_finding(expr) ==
    IF expr \in DOMAIN searches
    THEN [ok |-> TRUE, finding |-> get_last_finding(searches[expr])]
    ELSE [ok |-> FALSE, finding |-> NoTimestamp]

\* SignalDB::get_end_of_next_finding
db_get_end_of_next_finding(expr, timestamp) ==
    IF expr \in DOMAIN searches
    THEN [ok |-> TRUE, finding |-> get_end_of_next_finding(searches[expr], timestamp)]
    ELSE [ok |-> FALSE, finding |-> NoTimestamp]

\* SignalDB::findings_between
db_findings_between(expr, begin, end) ==
    IF expr \in DOMAIN searches
    THEN [ok |-> TRUE, summary |-> findings_between(searches[expr], begin, end)]
    ELSE [ok |-> FALSE, summary |-> Summary("Nothing")]

\* SignalDB::search_init as a call of the client
db_search_init(expr) ==
    /\ searches' = search_init(expr)
    /\ ret' = IF ExprAst_from_str(expr).ok THEN "Ok" ELSE "SyntaxError"

\* search_at creating the search it does not find
db_search_at_or_insert(expr, timestamp) ==
    /\ searches' = [e \in DOMAIN searches \cup {expr} |->
                        IF e = expr THEN NewSearch(ExprAst_from_str(expr).ast)
                        ELSE searches[e]]
    /\ ret' = "Ok"

\* SignalDB::search_at: a search that is not found, or that fails on a signal, is an
\* error and nothing changes
db_search_at(expr, timestamp) ==
    IF expr \notin DOMAIN searches THEN ret' = "SearchNotFound" /\ UNCHANGED searches
    ELSE IF ~search_at(searches[expr], timestamp).ok
         THEN ret' = "SignalNotFound" /\ UNCHANGED searches
    ELSE /\ searches' = [searches EXCEPT ![expr] = search_at(@, timestamp).search]
         /\ ret' = "Ok"

\* SignalDB::finish_search
db_finish_search(expr) ==
    IF expr \notin DOMAIN searches THEN ret' = "SearchNotFound" /\ UNCHANGED searches
    ELSE searches' = [searches EXCEPT ![expr] = finish(@)] /\ ret' = "Ok"

\* What the worker leaves alone
wquiet == <<scope, signals, timestamps, now, timescale, initialized, valid,
            lock_initialized, lock_valid, lock_signals, panicked, ret, parservars, waiter>>

\* The expressions submitted: the one of the example, and one that does not parse
SearchExprs == {"$# <- 0", "$# <-"}

MainThread == 1

\* AsyncSignalDB::search, called by the main thread once its wait_until_initialized
\* returned Ok: the worker thread is spawned
Search ==
    /\ worker.pc = "idle"
    /\ waiter[MainThread].pc = "done"
    /\ waiter[MainThread].result = "Ok"
    /\ \E expr \in SearchExprs : worker' = [worker EXCEPT !.pc = "init", !.expr = expr]
    /\ UNCHANGED <<searches, status, wquiet>>

\* The worker calls search_init, sets the status if it fails, and creates the iterator
\* of get_timestamps
WorkerSearchInit ==
    /\ worker.pc = "init"
    /\ searches' = search_init(worker.expr)
    /\ IF ExprAst_from_str(worker.expr).ok
       THEN UNCHANGED status
       ELSE set_status(CannotInitializeSearch)
    /\ worker' = [worker EXCEPT !.pc = "next", !.index = 0]
    /\ UNCHANGED wquiet

\* EventIterator::next: the timestamp at the index, if there is one yet
WorkerNext ==
    /\ worker.pc = "next"
    /\ worker' = IF worker.index < Len(timestamps)
                 THEN [worker EXCEPT !.pc = "at", !.index = @ + 1,
                                     !.timestamp = timestamps[worker.index + 1]]
                 ELSE [worker EXCEPT !.pc = "finish", !.index = @ + 1]
    /\ UNCHANGED <<searches, status, wquiet>>

\* The worker going on to the next timestamp after an error of search_at
WorkerSearchAtGoingOn ==
    /\ worker.pc = "at"
    /\ searches' = IF worker.expr \in DOMAIN searches
                       /\ search_at(searches[worker.expr], worker.timestamp).ok
                   THEN [searches EXCEPT
                            ![worker.expr] = search_at(@, worker.timestamp).search]
                   ELSE searches
    /\ worker' = [worker EXCEPT !.pc = "next"]
    /\ UNCHANGED <<status, wquiet>>

\* SignalDB::search_at on the timestamp; an error sets the status and ends the thread
WorkerSearchAt ==
    /\ worker.pc = "at"
    /\ IF worker.expr \in DOMAIN searches
          /\ search_at(searches[worker.expr], worker.timestamp).ok
       THEN /\ searches' = [searches EXCEPT
                               ![worker.expr] = search_at(@, worker.timestamp).search]
            /\ worker' = [worker EXCEPT !.pc = "next"]
            /\ UNCHANGED status
       ELSE /\ set_status(InvalidSearchExpression)
            /\ worker' = [worker EXCEPT !.pc = "done"]
            /\ UNCHANGED searches
    /\ UNCHANGED wquiet

\* SignalDB::finish_search, the iterator being exhausted
WorkerFinish ==
    /\ worker.pc = "finish"
    /\ searches' = IF worker.expr \in DOMAIN searches
                   THEN [searches EXCEPT ![worker.expr] = finish(@)]
                   ELSE searches
    /\ worker' = [worker EXCEPT !.pc = "done"]
    /\ UNCHANGED <<status, wquiet>>

\* The dump of the example, and the same with a stray line among its value changes
SearchFiles == {File(VcdLines), File(Stray(VcdLines, Len(VcdLines) - 2))}

InitSearch ==
    /\ DbNew
    /\ text \in SearchFiles
    /\ lexer = NewLexer
    /\ parser = IdleParser
    /\ waiter = [w \in Waiters |-> IdleWaiter]
    /\ worker = IdleWorker

NextSearch ==
    \/ ParseVcd
    \/ ParseStmt
    \/ ParseComment
    \/ ParseScope
    \/ ParseUpscope
    \/ ParseVar
    \/ ParseValueChange
    \/ ParseDumpvars
    \/ ParseTimescale
    \/ ParseErrSetStatus
    \/ ParseErrMarkInvalid
    \/ ParseErrMarkInitialized
    \/ ParseReady
    \/ WaiterEnters
    \/ WaiterWakesSpuriously
    \/ WaiterChecksValid
    \/ WaiterReadsStatus
    \/ Search
    \/ WorkerSearchInit
    \/ WorkerNext
    \/ WorkerSearchAt
    \/ WorkerFinish

SpecSearch == InitSearch /\ [][NextSearch]_vars

\* C8: with the parser thread feeding the dump of a 1-bit wire # with transitions at
\* 42 and 1338, and search("$# <- 0") submitted once wait_until_initialized returned
\* on the main thread, get_first_finding eventually returns 42: when the parser and
\* the worker have both finished, the first finding is 42.
C8_FirstFindingIs42 ==
    (text = File(VcdLines) /\ worker.expr = "$# <- 0" /\ worker.pc = "done"
        /\ parser.pc = "done_ok")
        => db_get_first_finding("$# <- 0") = [ok |-> TRUE, finding |-> SomeTimestamp(42)]

(***************************************************************************)
(* Properties of the store under Spec                                      *)
(***************************************************************************)
StrictlyIncreasing(seq) == \A i \in 1..(Len(seq) - 1) : seq[i] < seq[i + 1]

IsPrefix(a, b) == Len(a) <= Len(b) /\ SubSeq(b, 1, Len(a)) = a

C1_State ==
    /\ Len(timestamps) >= 1
    /\ timestamps[1] = 0
    /\ StrictlyIncreasing(timestamps)
    /\ now = timestamps[Len(timestamps)]

\* A step either leaves the timestamps and the current time alone, or appends one
\* timestamp greater than the current time and makes it the current time
C1_Step ==
    \/ UNCHANGED <<timestamps, now>>
    \/ /\ IsPrefix(timestamps, timestamps')
       /\ Len(timestamps') = Len(timestamps) + 1
       /\ timestamps'[Len(timestamps')] > now
       /\ now' = timestamps'[Len(timestamps')]

\* C1: under any interleaving of set_time, insert_event and set_current_value the
\* timestamp sequence is strictly increasing, begins with 0, only grows by appending,
\* and now is its last element; a call with a timestamp <= now changes neither.
C1_TimestampsMonotonic == [](C1_State) /\ [][C1_Step]_vars

\* Timestamps were appended out of step (0, 2, 3) and a signal holds an event
C1_Witness ==
    /\ timestamps = <<0, 2, 3>>
    /\ Id0 \in DOMAIN signals
    /\ Len(signals[Id0].events) > 0

EventTimes(sig) == {sig.events[i].timestamp : i \in 1..Len(sig.events)}

EventsIncreasing(sig) ==
    \A i \in 1..(Len(sig.events) - 1) : sig.events[i].timestamp < sig.events[i + 1].timestamp

AdjacentDistinct(sig) ==
    \A i \in 1..(Len(sig.events) - 1) :
        ~ValEq(sig.events[i].new_value, sig.events[i + 1].new_value)

\* C2: after any sequence of add_event / insert_event calls, in any order of
\* timestamps, a signal's events have strictly increasing timestamps and every two
\* adjacent events carry different values.
C2_EventListMonotonic ==
    \A id \in DOMAIN signals : EventsIncreasing(signals[id]) /\ AdjacentDistinct(signals[id])

\* The events at or before t, by index
AtOrBefore(sig, t) == {i \in 1..Len(sig.events) : sig.events[i].timestamp <= t}

\* The index of the event with the greatest timestamp among those of I
Latest(sig, I) ==
    CHOOSE i \in I : \A j \in I : sig.events[j].timestamp <= sig.events[i].timestamp

QueryTimes == (0 - 1)..(MaxTime + 1)

\* C3: value_at(t) is the value of the event with the greatest timestamp <= t, and
\* width copies of Undefined when there is none; so it equals value_at at the
\* timestamp of the last event at or before t.
C3_ValueAt ==
    \A id \in DOMAIN signals : \A t \in QueryTimes :
        LET sig == signals[id]
            I == AtOrBefore(sig, t)
        IN  IF I = {}
            THEN value_at(sig, t) = [k |-> "Literal", s |-> <<>>,
                                     bits |-> [i \in 1..sig.width |-> "Undefined"]]
            ELSE /\ value_at(sig, t) = sig.events[Latest(sig, I)].new_value
                 /\ value_at(sig, t) = value_at(sig, sig.events[Latest(sig, I)].timestamp)

\* A signal with events at 1 and 3: value_at(0) misses before the first event,
\* value_at(2) misses between two events, value_at(3) hits
C3_Witness ==
    /\ Id0 \in DOMAIN signals
    /\ EventTimes(signals[Id0]) = {1, 3}
    /\ EventsIncreasing(signals[Id0])

\* C4: every timestamp at which some signal holds an event is an element of the
\* store's timestamp sequence.
C4_EventTimesIndexed ==
    \A id \in DOMAIN signals :
        EventTimes(signals[id]) \subseteq {timestamps[i] : i \in 1..Len(timestamps)}

(***************************************************************************)
(* Properties of a parse with a limit, under SpecVcd                       *)
(***************************************************************************)
\* The parser pops a `#` token in statement context
ReadsTimestamp == parser.pc = "stmt" /\ lexer' # lexer /\ parser'.tok.t = "Timestamp"

\* The parse has returned Ok, or is about to
Succeeded == parser.pc \in {"ok_status", "done_ok"}

\* The value of the last event at or before t, the default when there is none
InForceAt(sig, t) ==
    IF AtOrBefore(sig, t) = {} THEN sig.default
    ELSE sig.events[Latest(sig, AtOrBefore(sig, t))].new_value

\* Timestamps past the limit L: the next one, and those of the dumps
PastLimit(L) == {L + 1, L + 2, 1338, 1339}

C11_State ==
    parser.limit.some =>
        /\ \A id \in DOMAIN signals :
            /\ \A i \in 1..Len(signals[id].events) :
                  signals[id].events[i].timestamp <= parser.limit.v
            /\ \A t \in PastLimit(parser.limit.v) :
                  value_at(signals[id], t) = InForceAt(signals[id], parser.limit.v)
        /\ (Succeeded /\ parser.tok.t = "Timestamp") => parser.tok.n > parser.limit.v
        /\ parser.pc = "done_ok" => valid /\ status.msg = "Ready"

C11_Step ==
    /\ (ReadsTimestamp /\ parser.limit.some /\ parser'.tok.n > parser.limit.v)
        => parser'.pc = "ok_status"
    /\ (ReadsTimestamp /\ ~(parser.limit.some /\ parser'.tok.n > parser.limit.v))
        => parser'.pc = "stmt"
    /\ Succeeded => (signals' = signals /\ lexer' = lexer /\ Succeeded')

\* C11: with a parse limit L the parse stops with success at the first `#N` token
\* with N > L and not at one with N <= L; once stopped it reads no more input and
\* applies no value change; every stored event has a timestamp <= L, and value_at at
\* any time past L is the value of the last event at or before L.
C11_ParseLimit == [](C11_State) /\ [][C11_Step]_vars

\* The parse with limit 42 applied the change at 42, stopped at #1338 and returned Ok
C11_Witness ==
    /\ text = File(VcdLines)
    /\ parser.limit.some
    /\ parser.pc = "done_ok"
    /\ parser.tok.t = "Timestamp"
    /\ parser.tok.n = 1338
    /\ EventTimes(signals[W_hash]) = {0, 42}
    /\ value_at(signals[W_hash], 1338) = value_at(signals[W_hash], 42)

(***************************************************************************)
(* Properties of Signal::add_event and of the signal's queries, under Spec *)
(***************************************************************************)
\* The events strictly before t, by index
Before_t(sig, t) == {i \in 1..Len(sig.events) : sig.events[i].timestamp < t}

\* The value in force just before t: that of the last event strictly before t, the
\* default when there is none
InForceBefore(sig, t) ==
    IF Before_t(sig, t) = {} THEN sig.default
    ELSE sig.events[Latest(sig, Before_t(sig, t))].new_value

\* C12: in any state of a signal and for any (t, v), add_event(t, v) called twice
\* leaves the event list that one call leaves; and when v, at the signal's width,
\* equals the value in force just before t, the signal holds no event at t after
\* add_event(t, v).
C12_AddEventIdempotent ==
    \A id \in DOMAIN signals : \A t \in Times : \A v \in ApiValues :
        LET sig == signals[id]
            once == add_event(sig, t, v)
            twice == add_event(once, t, v)
        IN  /\ twice.events = once.events
            /\ ValEq(InForceBefore(sig, t), expand(v, sig.width))
                  => t \notin EventTimes(once)

\* A signal holds 1 at 1 and 0 at 2: add_event(2, 1) removes the event at 2, and
\* add_event(3, 0) stores nothing
C12_Witness ==
    /\ Id0 \in DOMAIN signals
    /\ Len(signals[Id0].events) = 2
    /\ signals[Id0].events[1] = [timestamp |-> 1, new_value |-> expand(V1, 2)]
    /\ signals[Id0].events[2] = [timestamp |-> 2, new_value |-> expand(V0, 2)]
    /\ EventTimes(add_event(signals[Id0], 2, V1)) = {1}
    /\ add_event(signals[Id0], 3, V0) = signals[Id0]

\* The events of the period [begin, end), by index
Within(sig, begin, end) ==
    {i \in 1..Len(sig.events) : begin <= sig.events[i].timestamp /\ sig.events[i].timestamp < end}

\* C13: for begin <= end, events_between(begin, end) returns (a, n, b) where n is
\* the number of events with begin <= timestamp < end, a the value of the last event
\* strictly before begin and b the value of the last event strictly before end, each
\* the default when there is no such event.
C13_EventsBetween ==
    \A id \in DOMAIN signals : \A begin \in QueryTimes : \A end \in QueryTimes :
        begin <= end =>
            LET sig == signals[id]
                r == events_between(sig, begin, end)
            IN  /\ r.count = Cardinality(Within(sig, begin, end))
                /\ r.before = InForceBefore(sig, begin)
                /\ r.after = InForceBefore(sig, end)

\* A signal with events at 0, 1 and 3: events_between(1, 3) counts the event at 1
\* and not the one at 3, between the values set at 0 and at 1
C13_Witness ==
    /\ Id0 \in DOMAIN signals
    /\ EventTimes(signals[Id0]) = {0, 1, 3}
    /\ EventsIncreasing(signals[Id0])
    /\ events_between(signals[Id0], 1, 3) =
          [before |-> signals[Id0].events[1].new_value, count |-> 1,
           after |-> signals[Id0].events[2].new_value]

\* The events after the last event preceding t1, by index: all of them when no event
\* precedes t1
AfterPredecessor(sig, t1) ==
    {i \in 1..Len(sig.events) :
        \A j \in Before_t(sig, t1) : sig.events[i].timestamp > sig.events[j].timestamp}

\* C14: for t1 <= t2 the count of events_between(t1, t2) is not negative and is the
\* number of events whose timestamp is strictly greater than that of the last event
\* preceding t1 and at most t2.
C14_CountUpToEnd ==
    \A id \in DOMAIN signals : \A t1 \in QueryTimes : \A t2 \in QueryTimes :
        t1 <= t2 =>
            LET sig == signals[id]
                n == events_between(sig, t1, t2).count
            IN  /\ n >= 0
                /\ n = Cardinality({i \in AfterPredecessor(sig, t1) :
                                        sig.events[i].timestamp <= t2})

\* C14 as amended: for t1 <= t2 the count of events_between(t1, t2) is not negative
\* and is the number of events whose timestamp is strictly greater than that of the
\* last event preceding t1 and strictly less than t2: an event at t2 is not counted.
C14_CountBeforeEnd ==
    \A id \in DOMAIN signals : \A t1 \in QueryTimes : \A t2 \in QueryTimes :
        t1 <= t2 =>
            LET sig == signals[id]
                n == events_between(sig, t1, t2).count
            IN  /\ n >= 0
                /\ n = Cardinality({i \in AfterPredecessor(sig, t1) :
                                        sig.events[i].timestamp < t2})

\* A signal with events at 1 and 2: events_between(0, 2) counts the event at 1 only
C14_Witness ==
    /\ Id0 \in DOMAIN signals
    /\ EventTimes(signals[Id0]) = {1, 2}
    /\ EventsIncreasing(signals[Id0])
    /\ events_between(signals[Id0], 0, 2).count = 1

\* The value is zero: a literal whose bits are all low
IsZero(v) == v.k = "Literal" /\ \A i \in 1..Len(v.bits) : v.bits[i] = "Low"

\* The timestamps of the events whose value is not zero, and of those whose value is
RisingTimes(sig) ==
    {sig.events[i].timestamp : i \in {j \in 1..Len(sig.events) : ~IsZero(sig.events[j].new_value)}}

FallingTimes(sig) ==
    {sig.events[i].timestamp : i \in {j \in 1..Len(sig.events) : IsZero(sig.events[j].new_value)}}

\* Some(the least timestamp of T), Some(the greatest), or None when T is empty
Smallest(T) == IF T = {} THEN NoTimestamp ELSE SomeTimestamp(First(T))
Greatest(T) == IF T = {} THEN NoTimestamp ELSE SomeTimestamp(Last(T))

\* C15: get_next_rising_edge(t) is the smallest event timestamp > t whose value is not
\* zero, get_next_falling_edge(t) the smallest event timestamp > t whose value is
\* zero, get_previous_rising_edge(t) the greatest event timestamp < t whose value is
\* not zero; each is None exactly when there is no such event.
C15_Edges ==
    \A id \in DOMAIN signals : \A t \in QueryTimes :
        LET sig == signals[id]
        IN  /\ get_next_rising_edge(sig, t) = Smallest({u \in RisingTimes(sig) : u > t})
            /\ get_next_falling_edge(sig, t) = Smallest({u \in FallingTimes(sig) : u > t})
            /\ get_previous_rising_edge(sig, t) = Greatest({u \in RisingTimes(sig) : u < t})

\* A signal holds 0 at 0, 1 at 1 and 0 at 2: the rising edge after 0 and before 3 is
\* at 1, the falling edge after 1 at 2, and there is no rising edge after 1 or before 1
C15_Witness ==
    /\ Id0 \in DOMAIN signals
    /\ Len(signals[Id0].events) = 3
    /\ \A i \in 1..3 : signals[Id0].events[i].timestamp = i - 1
    /\ IsZero(signals[Id0].events[1].new_value)
    /\ signals[Id0].events[2].new_value = expand(V1, 2)
    /\ IsZero(signals[Id0].events[3].new_value)
    /\ get_next_rising_edge(signals[Id0], 0) = SomeTimestamp(1)
    /\ get_next_rising_edge(signals[Id0], 1) = NoTimestamp
    /\ get_next_falling_edge(signals[Id0], 1) = SomeTimestamp(2)
    /\ get_previous_rising_edge(signals[Id0], 3) = SomeTimestamp(1)
    /\ get_previous_rising_edge(signals[Id0], 1) = NoTimestamp

(***************************************************************************)
(* Properties of the store's per-signal operations, under Spec             *)
(***************************************************************************)
\* The call returns Err(SignalNotFound)
SignalNotFound(r) == ~r.ok

\* insert_event, or set_current_value, with that id can return something else
InsertReturnsOther(id) ==
    \/ \E t \in Times, v \in ApiValues :
          ENABLED (insert_event(id, t, v) /\ ret' # "SignalNotFound")
    \/ \E v \in ApiValues :
          ENABLED (set_current_value(id, v) /\ ret' # "SignalNotFound")

\* C16: every per-signal operation of the store (value_at, event_at, events_between,
\* the three edge queries, get_first_event, get_last_event, insert_event,
\* set_current_value) called with an id that was never declared returns
\* SignalNotFound, whatever its other arguments and the store's current time.
C16_UnknownIdIsAnError ==
    \A id \in ApiIds \ DOMAIN signals :
        /\ \A t \in QueryTimes :
            /\ SignalNotFound(db_value_at(id, t))
            /\ SignalNotFound(db_event_at(id, t))
            /\ SignalNotFound(db_get_next_rising_edge(id, t))
            /\ SignalNotFound(db_get_next_falling_edge(id, t))
            /\ SignalNotFound(db_get_previous_rising_edge(id, t))
            /\ \A end \in QueryTimes : SignalNotFound(db_events_between(id, t, end))
        /\ SignalNotFound(db_get_first_event(id))
        /\ SignalNotFound(db_get_last_event(id))
        /\ ~InsertReturnsOther(id)

\* The same for every operation but events_between, and for events_between when the
\* period does not end after the current time
C16_UnknownIdKnownPeriod ==
    \A id \in ApiIds \ DOMAIN signals :
        /\ \A t \in QueryTimes :
            /\ SignalNotFound(db_value_at(id, t))
            /\ SignalNotFound(db_event_at(id, t))
            /\ SignalNotFound(db_get_next_rising_edge(id, t))
            /\ SignalNotFound(db_get_next_falling_edge(id, t))
            /\ SignalNotFound(db_get_previous_rising_edge(id, t))
            /\ \A end \in QueryTimes :
                  end <= now => SignalNotFound(db_events_between(id, t, end))
        /\ SignalNotFound(db_get_first_event(id))
        /\ SignalNotFound(db_get_last_event(id))
        /\ ~InsertReturnsOther(id)

(***************************************************************************)
(* SpecFind: a client fills the store through its API, then runs one       *)
(* search with SignalDB::search and queries its findings                   *)
(***************************************************************************)
\* The expressions the client searches; the last two fail, one on a signal that is
\* never declared and one in the expression's syntax
FindExprs ==
    {"$0 <- 1", "$0 = 1", "$0 <- 1 and after 1", "($0 = 1 or $0 <- 0) and before 2",
     "$1 <- 1", "$0 <-"}

ApiSearch ==
    /\ ~panicked
    /\ searches = EmptyMap
    /\ \E expr \in FindExprs : db_search(expr)
    /\ UNCHANGED <<scope, signals, timestamps, now, timescale, status, initialized, valid,
                   lock_initialized, lock_valid, lock_signals, panicked, parservars, waiter, worker>>

\* The store is filled before the search
ApiFill == searches = EmptyMap /\ Next

NextFind ==
    \/ ApiFill
    \/ ApiSearch

SpecFind == Init /\ [][NextFind]_vars

(***************************************************************************)
(* Properties of a search run with SignalDB::search, under SpecFind        *)
(***************************************************************************)
\* The timestamps of the store
StoreTimes == {timestamps[i] : i \in 1..Len(timestamps)}

\* The expression evaluates to true at the timestamp
TrueAt(expr, t) == eval_at(expr, t).ok /\ eval_at(expr, t).result

\* Wherever the expression is true on the store, the kind of its result is Transition
TransitionWhenTrue(expr) ==
    \A t \in StoreTimes : TrueAt(expr, t) => eval_at(expr, t).ty = "Transition"

\* The positions of the findings that are the point t
PointsAt(search, t) == {i \in 1..Len(search.findings) : search.findings[i] = Point(t)}

\* C17: after SignalDB::search of an expression whose result is of kind Transition
\* wherever it is true, Point(t) is among the findings exactly when t is a timestamp
\* of the store at which the expression is true, and then it is there once.
C17_PointsAreTheTrueTimestamps ==
    \A e \in DOMAIN searches :
        TransitionWhenTrue(searches[e].expr) =>
            \A t \in QueryTimes :
                /\ (PointsAt(searches[e], t) # {})
                       <=> (t \in StoreTimes /\ TrueAt(searches[e].expr, t))
                /\ Cardinality(PointsAt(searches[e], t)) <= 1

\* The signal became 1 at 1 and at 3, and 0 in between, and the search of "$0 <- 1"
\* found both
C17_Witness ==
    /\ "$0 <- 1" \in DOMAIN searches
    /\ Id0 \in DOMAIN signals
    /\ EventTimes(signals[Id0]) = {1, 2, 3}
    /\ searches["$0 <- 1"].findings = <<Point(1), Point(3)>>

\* The kind of the expression's result is Level at every timestamp of the store
LevelAlways(expr) ==
    \A t \in StoreTimes : eval_at(expr, t).ok /\ eval_at(expr, t).ty = "Level"

\* Where findings_between answers Range for [a, b), the expression of the search is true
\* at every timestamp of the store in [a, b)
RangeIsTrue(search) ==
    \A a \in QueryTimes, b \in QueryTimes :
        findings_between(search, a, b).k = "Range" =>
            \A t \in StoreTimes : (a <= t /\ t < b) => TrueAt(search.expr, t)

\* C18: for every search expression of a completed search, if findings_between
\* returns Range for [a, b), the expression is true at every timestamp t of the store
\* with a <= t < b.
C18_RangeIsTrue == \A e \in DOMAIN searches : RangeIsTrue(searches[e])

\* What holds of the expressions whose result is of kind Level at every timestamp
C18_RangeIsTrueOfLevel ==
    \A e \in DOMAIN searches : LevelAlways(searches[e].expr) => RangeIsTrue(searches[e])

\* Where the findings of a search begin: the time of a point, the begin of a period and
\* the begin of the open period
Begins(search) ==
    {search.findings[i].begin : i \in 1..Len(search.findings)}
        \cup (IF search.current_period.some THEN {search.current_period.t} ELSE {})

\* C19: get_next_finding(E, t) is the smallest begin of a finding (a point's time, a
\* period's begin or the begin of the open period) strictly greater than t, and None
\* when no finding begins after t.
C19_NextFinding ==
    \A e \in DOMAIN searches, t \in QueryTimes :
        db_get_next_finding(e, t) =
            [ok |-> TRUE, finding |-> Smallest({b \in Begins(searches[e]) : b > t})]

\* The signal is 1 over [0, 1) and again from 2 on: from 0, which the closed period
\* holds, the next finding is the open period
C19_Witness ==
    /\ "$0 = 1" \in DOMAIN searches
    /\ searches["$0 = 1"].findings = <<Period(0, 1)>>
    /\ searches["$0 = 1"].current_period = SomeTimestamp(2)
    /\ db_get_next_finding("$0 = 1", 0) = [ok |-> TRUE, finding |-> SomeTimestamp(2)]

\* C20: get_previous_finding(E, t) is the greatest begin of a finding (a point's time, a
\* period's begin or the begin of the open period) strictly less than t, and None when
\* no finding begins before t; in particular it never returns a timestamp >= t.
C20_PreviousFinding ==
    \A e \in DOMAIN searches, t \in QueryTimes :
        db_get_previous_finding(e, t) =
            [ok |-> TRUE, finding |-> Greatest({b \in Begins(searches[e]) : b < t})]

\* The part of C20 that bounds the answer: it is never a timestamp >= t
C20_PreviousIsBefore ==
    \A e \in DOMAIN searches, t \in QueryTimes :
        db_get_previous_finding(e, t).finding.some =>
            db_get_previous_finding(e, t).finding.t < t

\* The part of C20 about the open period: past the last closed finding, the answer is
\* the begin of the open period
C20_PreviousIsOpenPeriod ==
    \A e \in DOMAIN searches, t \in QueryTimes :
        (searches[e].current_period.some /\ searches[e].current_period.t < t)
            => db_get_previous_finding(e, t).finding = searches[e].current_period

\* A finding lies in the window [begin, end): a point of it, a period that meets it
FindingIn(finding, begin, end) ==
    IF finding.k = "Point" THEN begin <= finding.begin /\ finding.begin < end
    ELSE finding.begin < end /\ finding.end > begin

\* The search has a finding in the window [begin, end): one of its findings, or its open
\* period when that starts before end
HasFindingIn(search, begin, end) ==
    \/ \E i \in 1..Len(search.findings) : FindingIn(search.findings[i], begin, end)
    \/ search.current_period.some /\ search.current_period.t < end

\* C21: for a finished search and begin < end, findings_between(begin, end) returns
\* Nothing exactly when there is no finding in the window: no point p with
\* begin <= p < end, no period [b, e) with b < end and e > begin, and no open period
\* starting before end.
C21_NothingIffNoFinding ==
    \A e \in DOMAIN searches, begin \in QueryTimes, end \in QueryTimes :
        begin < end =>
            ((findings_between(searches[e], begin, end).k = "Nothing")
                <=> ~HasFindingIn(searches[e], begin, end))

\* One half of C21: a window with no finding is answered Nothing
C21_NoFindingIsNothing ==
    \A e \in DOMAIN searches, begin \in QueryTimes, end \in QueryTimes :
        (begin < end /\ ~HasFindingIn(searches[e], begin, end))
            => findings_between(searches[e], begin, end).k = "Nothing"

\* The other half of C21: a window answered Nothing has no finding
C21_NothingIsNoFinding ==
    \A e \in DOMAIN searches, begin \in QueryTimes, end \in QueryTimes :
        (begin < end /\ findings_between(searches[e], begin, end).k = "Nothing")
            => ~HasFindingIn(searches[e], begin, end)

StepExprs == {"$0 = 1", "$0 <- 1", "$0 <-"}

StepValues == {V0, V1}

\* An event at the current time or later, as a parser inserts them
StepInsertEvent ==
    /\ ~panicked
    /\ \E t \in Times, v \in StepValues : t >= now /\ insert_event(Id0, t, v)
    /\ UNCHANGED <<scope, quiet, status, initialized, valid,
                   lock_initialized, lock_valid, lock_signals, panicked, parservars, waiter>>

\* What the calls on a search leave alone
squiet == <<scope, signals, timestamps, now, timescale, status, initialized, valid,
            lock_initialized, lock_valid, lock_signals, panicked, parservars, waiter, worker>>

\* The client registers one search
ApiSearchInit ==
    /\ searches = EmptyMap
    /\ \E expr \in StepExprs : db_search_init(expr)
    /\ UNCHANGED squiet

\* The client stops calling search_at on a search with this many findings (the same
\* timestamp searched twice is found twice)
MaxFindings == 3

\* The search is active: search_init has been called on it and finish_search has not
Active(expr) == expr \in DOMAIN searches /\ searches[expr].cursor.some

\* The client calls search_at on an active search, or on one that is not registered
ApiSearchAt ==
    /\ \E expr \in StepExprs, t \in Times :
          /\ expr \in DOMAIN searches =>
                (Active(expr) /\ Len(searches[expr].findings) < MaxFindings)
          /\ db_search_at(expr, t)
    /\ UNCHANGED squiet

ApiFinishSearch ==
    /\ \E expr \in StepExprs : db_finish_search(expr)
    /\ UNCHANGED squiet

\* The store is filled before the search is registered
StepFill ==
    /\ searches = EmptyMap
    /\ \/ ApiDeclareSignal
       \/ ApiSetTime
       \/ StepInsertEvent

NextStep ==
    \/ StepFill
    \/ ApiSearchInit
    \/ ApiSearchAt
    \/ ApiFinishSearch

SpecStep == Init /\ [][NextStep]_vars

(***************************************************************************)
(* Properties of the calls on a search, under SpecStep                     *)
(***************************************************************************)
\* The call returned SearchNotFound and left the map of searches as it was
NotFoundAndUnchanged == ret' = "SearchNotFound" /\ searches' = searches

\* search_at and finish_search on the expression can end in no other way
CallsAreNotFound(expr) ==
    /\ \A t \in Times : ~ENABLED (db_search_at(expr, t) /\ ~NotFoundAndUnchanged)
    /\ ~ENABLED (db_finish_search(expr) /\ ~NotFoundAndUnchanged)

\* The queries on the expression answer SearchNotFound; they read the map only
QueriesAreNotFound(expr) ==
    /\ \A begin \in QueryTimes, end \in QueryTimes : ~db_findings_between(expr, begin, end).ok
    /\ ~db_get_first_finding(expr).ok
    /\ ~db_get_last_finding(expr).ok
    /\ \A t \in QueryTimes :
          /\ ~db_get_next_finding(expr, t).ok
          /\ ~db_get_previous_finding(expr, t).ok
          /\ ~db_get_end_of_next_finding(expr, t).ok

\* C23: search_at, finish_search, findings_between and the get_*_finding queries, called
\* with an expression that search and search_init never registered, return
\* SearchNotFound and leave the store's map of searches unchanged.
C23_UnregisteredIsNotFound ==
    \A expr \in StepExprs :
        expr \notin DOMAIN searches => (CallsAreNotFound(expr) /\ QueriesAreNotFound(expr))

\* A call on an unregistered expression has just returned SearchNotFound, next to a
\* registered search with a finding; the expression that does not parse is unregistered
C23_Witness ==
    /\ ret = "SearchNotFound"
    /\ "$0 <- 1" \in DOMAIN searches
    /\ searches["$0 <- 1"].findings # <<>>
    /\ "$0 <-" \notin DOMAIN searches

\* C24: search_at(expr, t) with a timestamp the store has not reached (t > now) is a
\* no-op: the findings, the current_period and the cursor of the search are unchanged.
C24_FutureIsNoOp ==
    \A expr \in DOMAIN searches, t \in Times :
        t > now => ~ENABLED (db_search_at(expr, t) /\ searches'[expr] # searches[expr])

\* The part of C24 about the findings and the period, the cursor left aside
C24_FutureKeepsFindings ==
    \A expr \in DOMAIN searches, t \in Times :
        t > now =>
            ~ENABLED (/\ db_search_at(expr, t)
                      /\ \/ searches'[expr].findings # searches[expr].findings
                         \/ searches'[expr].current_period # searches[expr].current_period)

\* The call changed nothing in the search and returned Ok
OkAndUnchanged(expr) == ret' = "Ok" /\ searches'[expr] = searches[expr]

\* The cursor of the search after the call is not earlier than before it
CursorNotEarlier(expr) ==
    searches'[expr].cursor.some /\ searches'[expr].cursor.t >= searches[expr].cursor.t

\* C25: while a search is active (after search_init, before finish_search),
\* search_at(expr, t) with t earlier than the cursor of the search returns Ok and
\* changes nothing (findings, current_period and cursor), and no search_at makes the
\* cursor decrease.
C25_BeforeCursorIsIgnored ==
    \A expr \in DOMAIN searches, t \in Times :
        Active(expr) =>
            /\ t < searches[expr].cursor.t =>
                  ~ENABLED (db_search_at(expr, t) /\ ~OkAndUnchanged(expr))
            /\ ~ENABLED (db_search_at(expr, t) /\ ~CursorNotEarlier(expr))

\* An active search with a finding whose cursor is at 2: a call at 1 is one of those
\* ignored
C25_Witness ==
    /\ Active("$0 <- 1")
    /\ searches["$0 <- 1"].cursor = SomeTimestamp(2)
    /\ searches["$0 <- 1"].findings = <<Point(1)>>
    /\ ENABLED (db_search_at("$0 <- 1", 1) /\ OkAndUnchanged("$0 <- 1"))

(***************************************************************************)
(* SpecIter: a thread polls an EventIterator while the store's time        *)
(* advances                                                                *)
(***************************************************************************)
\* What the iterator leaves alone
iquiet == <<dbvars, parservars, waiter>>

\* The thread stops polling an iterator whose index is past this
MaxIndex == MaxTime + 2

\* SignalDB::get_timestamps: EventIterator::new
GetTimestamps ==
    /\ worker.pc = "idle"
    /\ worker' = [worker EXCEPT !.pc = "iter", !.index = 0]
    /\ UNCHANGED iquiet

\* EventIterator::next: the timestamp at the index, or None; the index moves on in
\* both cases
IterNext ==
    /\ worker.pc = "iter"
    /\ worker.index < MaxIndex
    /\ worker' = IF worker.index < Len(timestamps)
                 THEN [worker EXCEPT !.index = @ + 1,
                                     !.timestamp = timestamps[worker.index + 1],
                                     !.seen = Append(@, timestamps[worker.index + 1])]
                 ELSE [worker EXCEPT !.index = @ + 1]
    /\ UNCHANGED iquiet

NextIter ==
    \/ ApiSetTime
    \/ GetTimestamps
    \/ IterNext

SpecIter == Init /\ [][NextIter]_vars

\* C26: an iterator obtained from get_timestamps yields the store's timestamps in index
\* order from the first, skipping none and repeating none, also for the timestamps
\* appended while it is in use and when it is polled again after it returned None.
C26_YieldsEveryTimestamp == IsPrefix(worker.seen, timestamps)

\* C26 for an iterator that is not polled again once it has returned None: its index
\* has never passed the end of the timestamps
C26_YieldsEveryTimestampUntilNone ==
    worker.index <= Len(worker.seen) => IsPrefix(worker.seen, timestamps)

(***************************************************************************)
(* SpecCallback: a thread calls SignalDB::find_signals with a predicate of *)
(* its own while a client fills the store                                  *)
(***************************************************************************)
\* The thread that calls find_signals
Finder == NumWaiters + 1

\* The predicates it passes: |s| s.name == "foo", which reads the signal it is given,
\* and |s| db.value_at(&s.id, t).is_ok(), which queries the store
FsPredicates == {"name", "value_at"}

\* The keys of the map of signals, in the order signals.iter() visits them
RECURSIVE KeySeq(_)
KeySeq(S) == IF S = {} THEN <<>> ELSE LET k == CHOOSE x \in S : TRUE
                                      IN  <<k>> \o KeySeq(S \ {k})

\* What find_signals leaves alone
fquiet == <<scope, signals, timestamps, now, searches, timescale, status, initialized,
            valid, lock_initialized, lock_valid, ret, parservars, waiter>>

\* find_signals is called: it locks the signals and starts its loop with no match
FindSignals ==
    /\ worker.pc \in {"idle", "fs_done"}
    /\ ~panicked
    /\ lock_signals = NoThread
    /\ lock_signals' = Finder
    /\ \E f \in FsPredicates :
          worker' = [worker EXCEPT !.pc = "fs_next", !.expr = f, !.index = 0, !.seen = <<>>]
    /\ UNCHANGED <<fquiet, panicked>>

\* The loop takes the next signal and calls the predicate on it, or returns the matches;
\* the guard of the lock is dropped at the return
FsNext ==
    /\ worker.pc = "fs_next"
    /\ IF worker.index < Len(KeySeq(DOMAIN signals))
       THEN worker' = [worker EXCEPT !.pc = "fs_call"] /\ UNCHANGED lock_signals
       ELSE worker' = [worker EXCEPT !.pc = "fs_done"] /\ lock_signals' = NoThread
    /\ UNCHANGED <<fquiet, panicked>>

\* The predicate that reads the signal's name returns, and a match is pushed
FsPredicateName ==
    /\ worker.pc = "fs_call"
    /\ worker.expr = "name"
    /\ LET key == KeySeq(DOMAIN signals)[worker.index + 1]
       IN  worker' = [worker EXCEPT
                        !.pc = "fs_next", !.index = @ + 1,
                        !.seen = IF signals[key].name = <<"foo">> THEN Append(@, key) ELSE @]
    /\ UNCHANGED <<fquiet, lock_signals, panicked>>

\* The predicate that queries the store calls value_at, which locks the signals: with
\* the mutex free it answers; locking a mutex its own thread holds never returns, the
\* thread blocks or panics (the panic unwinds and drops the guard)
FsPredicateValueAt ==
    /\ worker.pc = "fs_call"
    /\ worker.expr = "value_at"
    /\ IF lock_signals = NoThread
       THEN /\ worker' = [worker EXCEPT
                            !.pc = "fs_next", !.index = @ + 1,
                            !.seen = Append(@, KeySeq(DOMAIN signals)[worker.index + 1])]
            /\ UNCHANGED <<lock_signals, panicked>>
       ELSE \/ /\ worker' = [worker EXCEPT !.pc = "fs_deadlock"]
               /\ UNCHANGED <<lock_signals, panicked>>
            \/ /\ worker' = [worker EXCEPT !.pc = "fs_panic"]
               /\ lock_signals' = NoThread
               /\ panicked' = TRUE
    /\ UNCHANGED fquiet

\* The client's calls that lock the signals wait for the mutex
CbDeclareSignal == lock_signals = NoThread /\ ApiDeclareSignal
CbInsertEvent == lock_signals = NoThread /\ StepInsertEvent

NextCallback ==
    \/ CbDeclareSignal
    \/ CbInsertEvent
    \/ ApiSetTime
    \/ FindSignals
    \/ FsNext
    \/ FsPredicateName
    \/ FsPredicateValueAt

SpecCallback == Init /\ [][NextCallback]_vars

\* C27: no operation of the store calls a callback of its caller while it holds one of
\* the store's locks: find_signals does not hold the lock of the signals while the
\* predicate runs, so a predicate that queries the store completes instead of blocking.
C27_NoLockAcrossCallback ==
    /\ worker.pc = "fs_call" => lock_signals = NoThread
    /\ worker.pc \notin {"fs_deadlock", "fs_panic"}

\* The predicate that only reads the signal it is given does complete
C27_ReadingPredicateCompletes ==
    worker.expr = "name" => worker.pc \notin {"fs_deadlock", "fs_panic"}

(***************************************************************************)
(* SpecSearchAgain: SpecSearch, where the main thread submits a second     *)
(* search, one that fails, once the worker of the first has ended          *)
(***************************************************************************)
\* The expressions of the second search: both name a signal the dump does not declare;
\* the second never evaluates the side that names it
AgainExprs == {"$! <- 0", "before 0 and $! = 1"}

SearchAgain ==
    /\ worker.pc = "done"
    /\ worker.expr \in SearchExprs
    /\ \E expr \in AgainExprs : worker' = [worker EXCEPT !.pc = "init", !.expr = expr]
    /\ UNCHANGED <<searches, status, wquiet>>

NextSearchAgain ==
    \/ NextSearch
    \/ SearchAgain

SpecSearchAgain == InitSearch /\ [][NextSearchAgain]_vars

\* The signals an expression names
RECURSIVE Ids(_)
Ids(expr) ==
    CASE expr.op \in {"Equal", "Transition"} ->
            {expr.id} \cup (IF expr.v.k = "Id" THEN {expr.v.id} ELSE {})
      [] expr.op = "AnyTransition" -> {expr.id}
      [] expr.op \in {"And", "Or"} -> Ids(expr.l) \cup Ids(expr.r)
      [] expr.op = "Not" -> Ids(expr.l)
      [] OTHER -> {}

\* The expression of the worker does not parse, or names a signal the store does not know
BadExpr ==
    \/ ~ExprAst_from_str(worker.expr).ok
    \/ ~(Ids(ExprAst_from_str(worker.expr).ast) \subseteq DOMAIN signals)

\* search_at on the worker's expression and timestamp returns an error: the search is
\* not registered, or its evaluation meets a signal the store does not know
FailsNow ==
    \/ worker.expr \notin DOMAIN searches
    \/ ~search_at(searches[worker.expr], worker.timestamp).ok

\* The step is one of the worker
WorkerStep == worker' # worker /\ worker.pc \in {"init", "next", "at", "finish"}

\* The worker leaves the validity flag, the parser and the other searches as they are
OthersUnaffected ==
    /\ valid' = valid
    /\ parservars' = parservars
    /\ \A e \in DOMAIN searches \ {worker.expr} :
          e \in DOMAIN searches' /\ searches'[e] = searches[e]

\* The worker writes the status and ends
EndsWithStatus == worker'.pc = "done" /\ status' = InvalidSearchExpression

\* C28: if the expression of an asynchronous search does not parse or names an unknown
\* signal, the worker writes a status message and terminates; the validity flag, the
\* parser and every other registered search are unaffected.
C28_BadExprEndsWorker ==
    [][WorkerStep =>
          /\ OthersUnaffected
          /\ (worker.pc = "init" /\ ~ExprAst_from_str(worker.expr).ok)
                => status' = CannotInitializeSearch
          /\ (worker.pc = "at" /\ BadExpr) => EndsWithStatus]_vars

\* C28, for the searches whose evaluation fails: if the expression does not parse, or its
\* evaluation at a timestamp meets an unknown signal, the worker writes a status message
\* and terminates; the validity flag, the parser and every other registered search are
\* unaffected.
C28_FailingSearchEndsWorker ==
    [][WorkerStep =>
          /\ OthersUnaffected
          /\ (worker.pc = "init" /\ ~ExprAst_from_str(worker.expr).ok)
                => status' = CannotInitializeSearch
          /\ (worker.pc = "at" /\ FailsNow) => EndsWithStatus]_vars

\* The second search, on a signal the dump does not declare, has ended with the status
\* written, next to the first search and its finding
C28_Witness ==
    /\ worker.expr = "$! <- 0"
    /\ worker.pc = "done"
    /\ status = InvalidSearchExpression
    /\ "$! <- 0" \in DOMAIN searches
    /\ "$# <- 0" \in DOMAIN searches
    /\ searches["$# <- 0"].findings # <<>>

(***************************************************************************)
(* Timestamp with its scale (signaldb/time.rs).  An i64 is kept as a sign  *)
(* and a magnitude in base 1000, least significant digit first, so that    *)
(* the products of the 64-bit arithmetic are computed exactly: the scale   *)
(* factors are powers of 1000.                                             *)
(***************************************************************************)
\* The number n, |n| < 1000000, as an integer of the model
Big(n) ==
    LET m == IF n < 0 THEN 0 - n ELSE n
    IN  [neg |-> n < 0,
         mag |-> IF m = 0 THEN <<>> ELSE IF m < 1000 THEN <<m>> ELSE <<m % 1000, m \div 1000>>]

\* i64::MAX = 9223372036854775807, -i64::MIN, 2^64, and MAX_RESCALE = 1 << 50
I64MaxMag == <<807, 775, 854, 36, 372, 223, 9>>
I64MinMag == <<808, 775, 854, 36, 372, 223, 9>>
TwoTo64 == <<616, 551, 709, 73, 744, 446, 18>>
MAX_RESCALE == <<624, 842, 906, 899, 125, 1>>

\* Comparison of two magnitudes from digit i down
RECURSIVE MagCmpFrom(_, _, _)
MagCmpFrom(a, b, i) ==
    IF i = 0 THEN "Equal"
    ELSE IF a[i] < b[i] THEN "Less"
    ELSE IF a[i] > b[i] THEN "Greater"
    ELSE MagCmpFrom(a, b, i - 1)

MagCmp(a, b) ==
    IF Len(a) < Len(b) THEN "Less"
    ELSE IF Len(a) > Len(b) THEN "Greater"
    ELSE MagCmpFrom(a, b, Len(a))

Reverse(o) == CASE o = "Less" -> "Greater" [] o = "Greater" -> "Less" [] OTHER -> o

\* i64::cmp, also of the exact integers
IntCmp(x, y) ==
    IF x.neg /\ ~y.neg THEN "Less"
    ELSE IF ~x.neg /\ y.neg THEN "Greater"
    ELSE IF x.neg THEN Reverse(MagCmp(x.mag, y.mag))
    ELSE MagCmp(x.mag, y.mag)

\* A magnitude without its leading zeros
RECURSIVE Strip(_)
Strip(a) ==
    IF a # <<>> /\ a[Len(a)] = 0 THEN Strip(SubSeq(a, 1, Len(a) - 1)) ELSE a

\* a - b for magnitudes a >= b, digit i onwards with the borrow
RECURSIVE MagSubFrom(_, _, _, _)
MagSubFrom(a, b, i, borrow) ==
    IF i > Len(a) THEN <<>>
    ELSE LET d == a[i] - (IF i <= Len(b) THEN b[i] ELSE 0) - borrow
         IN  IF d < 0 THEN <<d + 1000>> \o MagSubFrom(a, b, i + 1, 1)
             ELSE <<d>> \o MagSubFrom(a, b, i + 1, 0)

MagSub(a, b) == Strip(MagSubFrom(a, b, 1, 0))

\* The integer does not fit an i64
Overflows(x) ==
    IF x.neg THEN MagCmp(x.mag, I64MinMag) = "Greater"
    ELSE MagCmp(x.mag, I64MaxMag) = "Greater"

\* The i64 a wrapping multiplication leaves: the integer modulo 2^64
RECURSIVE Wrap(_)
Wrap(x) ==
    IF ~Overflows(x) THEN x
    ELSE IF MagCmp(x.mag, TwoTo64) = "Greater"
         THEN Wrap([x EXCEPT !.mag = MagSub(x.mag, TwoTo64)])
    ELSE LET m == MagSub(TwoTo64, x.mag)
         IN  [neg |-> ~x.neg /\ m # <<>>, mag |-> m]

\* x * 1000^k and x / 1000^k (the division truncates toward zero)
ShiftUp(x, k) == IF x.mag = <<>> THEN x ELSE [x EXCEPT !.mag = [i \in 1..k |-> 0] \o x.mag]
ShiftDown(x, k) ==
    LET m == IF k >= Len(x.mag) THEN <<>> ELSE SubSeq(x.mag, k + 1, Len(x.mag))
    IN  [neg |-> x.neg /\ m # <<>>, mag |-> m]

\* Scale as Ord orders it, which is also the power of 1000 of Into<i64> for Scale:
\* Femtosecond is 1, Second 1000^5
ScaleExp(scale) ==
    CASE scale = <<"f", "s">> -> 0
      [] scale = <<"p", "s">> -> 1
      [] scale = <<"n", "s">> -> 2
      [] scale = <<"u", "s">> -> 3
      [] scale = <<"m", "s">> -> 4
      [] scale = <<"s">> -> 5

\* Timestamp::new(value, scale)
NewTimestamp(value, scale) == [value |-> value, scale |-> scale]

\* Timestamp::rescale: the timestamp in the scale, and whether its multiplication
\* overflowed (the value is then the wrapped one)
rescale(ts, scale) ==
    LET k == ScaleExp(ts.scale) - ScaleExp(scale)
    IN  IF k = 0 THEN [ts |-> ts, overflow |-> FALSE]
        ELSE IF k > 0
             THEN IF MagCmp(ShiftUp(Big(1), k).mag, MAX_RESCALE) = "Greater"
                  THEN [ts |-> ts, overflow |-> FALSE]
                  ELSE [ts |-> NewTimestamp(Wrap(ShiftUp(ts.value, k)), scale),
                        overflow |-> Overflows(ShiftUp(ts.value, k))]
        ELSE [ts |-> NewTimestamp(ShiftDown(ts.value, 0 - k), scale), overflow |-> FALSE]

\* Timestamp::normalize: the coarser of the two is rescaled to the scale of the finer
normalize(self, other) ==
    IF ScaleExp(self.scale) < ScaleExp(other.scale)
    THEN [a |-> self, b |-> rescale(other, self.scale).ts,
          overflow |-> rescale(other, self.scale).overflow]
    ELSE IF ScaleExp(self.scale) > ScaleExp(other.scale)
    THEN [a |-> rescale(self, other.scale).ts, b |-> other,
          overflow |-> rescale(self, other.scale).overflow]
    ELSE [a |-> self, b |-> other, overflow |-> FALSE]

\* impl Ord for Timestamp
cmp(self, other) ==
    LET n == normalize(self, other)
    IN  [ord |-> IF n.a.scale = n.b.scale THEN IntCmp(n.a.value, n.b.value)
                 ELSE IF ScaleExp(n.a.scale) < ScaleExp(n.b.scale) THEN "Less"
                 ELSE "Greater",
         overflow |-> n.overflow]

\* impl PartialEq for Timestamp
eq(self, other) ==
    LET n == normalize(self, other)
    IN  [eq |-> n.a.value = n.b.value, overflow |-> n.overflow]

(***************************************************************************)
(* SpecTime: a thread compares two timestamps                              *)
(***************************************************************************)
\* The values of the timestamps compared: 9223 seconds is the last count of seconds
\* whose femtoseconds fit an i64
TimeValues ==
    {Big(0), Big(1), Big(0 - 1), Big(999), Big(1000), Big(1001), Big(9223), Big(9224),
     Big(0 - 9224), Big(18447)}

TimeInputs == {NewTimestamp(v, s) : v \in TimeValues, s \in Scales}

\* The outcomes of an operation whose multiplication may have overflowed: the build
\* with overflow checks panics, the build without them goes on with the wrapped value
Outcomes(overflow, result) == IF overflow THEN {"Panic", result} ELSE {result}

\* The thread makes the two timestamps it compares
TsNew ==
    /\ worker.pc = "idle"
    /\ \E a \in TimeInputs, b \in TimeInputs :
          worker' = [worker EXCEPT !.pc = "new", !.seen = <<a, b>>]
    /\ UNCHANGED <<scope, signals, timestamps, now, searches, timescale, status,
                   initialized, valid, lock_initialized, lock_valid, lock_signals,
                   panicked, parservars, waiter, ret>>

\* a.cmp(&b)
TsCmp ==
    /\ worker.pc = "new"
    /\ worker' = [worker EXCEPT !.pc = "cmp"]
    /\ ret' \in Outcomes(cmp(worker.seen[1], worker.seen[2]).overflow,
                         cmp(worker.seen[1], worker.seen[2]).ord)
    /\ UNCHANGED <<scope, signals, timestamps, now, searches, timescale, status,
                   initialized, valid, lock_initialized, lock_valid, lock_signals,
                   panicked, parservars, waiter>>

\* a == b
TsEq ==
    /\ worker.pc = "new"
    /\ worker' = [worker EXCEPT !.pc = "eq"]
    /\ ret' \in Outcomes(eq(worker.seen[1], worker.seen[2]).overflow,
                         IF eq(worker.seen[1], worker.seen[2]).eq THEN "true" ELSE "false")
    /\ UNCHANGED <<scope, signals, timestamps, now, searches, timescale, status,
                   initialized, valid, lock_initialized, lock_valid, lock_signals,
                   panicked, parservars, waiter>>

NextTime ==
    \/ TsNew
    \/ TsCmp
    \/ TsEq

SpecTime == Init /\ [][NextTime]_vars

\* The exact duration of a timestamp, in femtoseconds
Duration(ts) == ShiftUp(ts.value, ScaleExp(ts.scale))

ExactCmp(a, b) == IntCmp(Duration(a), Duration(b))

\* C29: for any two timestamps, comparison and equality agree with the exact durations
\* value x unit (a == b iff the durations are equal, a < b iff a's is smaller), and
\* normalising the coarser operand to the finer scale never overflows the 64-bit
\* arithmetic.
C29_ComparisonIsExact ==
    /\ worker.pc = "cmp" => ret = ExactCmp(worker.seen[1], worker.seen[2])
    /\ worker.pc = "eq" =>
          ret = (IF ExactCmp(worker.seen[1], worker.seen[2]) = "Equal" THEN "true"
                 ELSE "false")

\* The product of the normalisation fits an i64
Fits(a, b) == ~normalize(a, b).overflow

\* What holds of the comparisons whose normalisation fits an i64
C29_ComparisonIsExactWhenItFits ==
    worker.pc \in {"cmp", "eq"} /\ Fits(worker.seen[1], worker.seen[2])
        => C29_ComparisonIsExact

(***************************************************************************)
(* SpecExpand: a thread parses a value and expands it                      *)
(***************************************************************************)
MaxBits == 2
MaxWidth == 3

ExpandChars == {"0", "1", "z", "x"}

\* The values written with at most MaxBits characters, most significant bit first as
\* from_str reads them, and a symbol
ExpandInputs ==
    {from_str(c) : c \in UNION {[1..n -> ExpandChars] : n \in 0..MaxBits}}
        \cup {Symbol(<<"s">>)}

\* let mut v = SignalValue::from_str(..); the thread keeps the value and the width
ExpNew ==
    /\ worker.pc = "idle"
    /\ \E v \in ExpandInputs, width \in 0..MaxWidth :
          worker' = [worker EXCEPT !.pc = "value", !.seen = <<v>>, !.index = width]
    /\ UNCHANGED <<scope, signals, timestamps, now, searches, timescale, status,
                   initialized, valid, lock_initialized, lock_valid, lock_signals,
                   panicked, parservars, waiter, ret>>

\* v.expand(width); the thread keeps the value as it was and as it is
ExpExpand ==
    /\ worker.pc = "value"
    /\ worker' = [worker EXCEPT !.pc = "expanded",
                                !.seen = <<@[1], expand(@[1], worker.index)>>]
    /\ UNCHANGED <<scope, signals, timestamps, now, searches, timescale, status,
                   initialized, valid, lock_initialized, lock_valid, lock_signals,
                   panicked, parservars, waiter, ret>>

NextExpand ==
    \/ ExpNew
    \/ ExpExpand

SpecExpand == Init /\ [][NextExpand]_vars

\* The bit that pads a value whose bit b decides: Low for Low and High, else b
PadOf(b) == IF b \in {"Low", "High"} THEN "Low" ELSE b

\* v expanded to the width is v followed by high-order bits that are all pad
PaddedWith(v, r, width, pad) ==
    /\ r.k = "Literal"
    /\ Len(r.bits) = width
    /\ \A i \in 1..width : r.bits[i] = IF i <= Len(v.bits) THEN v.bits[i] ELSE pad

\* C30: expand(width) on a literal shorter than width appends high-order bits that are
\* Low when the value's most significant bit is Low or High and otherwise equal to
\* that most significant bit; a literal already at least width bits long, and any
\* symbol, is left unchanged.
C30_ExpandPadsWithMsb ==
    worker.pc = "expanded" =>
        LET v == worker.seen[1]
            r == worker.seen[2]
        IN  IF v.k = "Literal" /\ Len(v.bits) < worker.index
            THEN Len(v.bits) > 0 =>
                    PaddedWith(v, r, worker.index, PadOf(v.bits[Len(v.bits)]))
            ELSE r = v

\* What the expansion does: the padding follows the least significant bit, and an
\* empty literal is padded with Low
C30_ExpandPadsWithLsb ==
    worker.pc = "expanded" =>
        LET v == worker.seen[1]
            r == worker.seen[2]
        IN  IF v.k = "Literal" /\ Len(v.bits) < worker.index
            THEN PaddedWith(v, r, worker.index,
                            IF Len(v.bits) > 0 THEN PadOf(v.bits[1]) ELSE "Low")
            ELSE r = v

(***************************************************************************)
(* SpecLex: a thread pops the tokens of an input until Eof                 *)
(***************************************************************************)
MaxText == 4

LexChars == {"a", " ", "\n"}

\* The inputs of at most MaxText characters
LexTexts == UNION {[1..n -> LexChars] : n \in 0..MaxText}

InitLex ==
    /\ DbNew
    /\ text \in LexTexts
    /\ lexer = NewLexer
    /\ parser = IdleParser
    /\ waiter = [w \in Waiters |-> IdleWaiter]
    /\ worker = IdleWorker

\* l.pop(Context::Stmt), called until it has returned Eof; the thread keeps the token.
\* A pop whose feed_words loops for ever leaves the thread in the lexer (hang).
LexPop ==
    /\ parser.tok # TokEof
    /\ ~lexer.hang
    /\ lexer' = pop(text, lexer, "Stmt").lexer
    /\ parser' = [parser EXCEPT !.tok = pop(text, lexer, "Stmt").tok]
    /\ UNCHANGED <<dbvars, text, waiter, worker>>

NextLex == LexPop

SpecLex == InitLex /\ [][NextLex]_vars

\* C31: for every finite input, repeatedly calling the lexer's pop eventually returns
\* Eof: blank lines, wherever they occur and however many there are (including at the
\* very end of the input), never make the lexer loop for ever. Every pop that returns
\* moves on in the input or returns Eof, so the calls reach Eof unless one of them
\* does not return.
C31_PopReachesEof == ~lexer.hang

\* The inputs whose last line is blank: the text is a newline, or ends with two
EndsWithBlankLine ==
    \/ text = <<"\n">>
    \/ Len(text) >= 2 /\ text[Len(text)] = "\n" /\ text[Len(text) - 1] = "\n"

\* What holds of pop: it loops for ever only on an input whose last line is blank
C31_HangsOnlyOnLastBlankLine == lexer.hang => EndsWithBlankLine

\* and on every other input the pops reach Eof
C31_PopReachesEofOtherwise ==
    ~EndsWithBlankLine /\ ~(parser.tok # TokEof /\ ~lexer.hang) => parser.tok = TokEof

(***************************************************************************)
(* SpecPeriod: SpecStep with a client whose expressions mix levels and     *)
(* transitions                                                             *)
(***************************************************************************)
PeriodExprs == {"$0 = 1", "($0 = 1 or $0 <- 0) and before 2"}

PeriodSearchInit ==
    /\ searches = EmptyMap
    /\ \E expr \in PeriodExprs : db_search_init(expr)
    /\ UNCHANGED squiet

PeriodSearchAt ==
    /\ \E expr \in PeriodExprs, t \in Times :
          /\ Active(expr)
          /\ Len(searches[expr].findings) < MaxFindings
          /\ db_search_at(expr, t)
    /\ UNCHANGED squiet

PeriodFinishSearch ==
    /\ \E expr \in DOMAIN searches : db_finish_search(expr)
    /\ UNCHANGED squiet

NextPeriod ==
    \/ StepFill
    \/ PeriodSearchInit
    \/ PeriodSearchAt
    \/ PeriodFinishSearch

SpecPeriod == Init /\ [][NextPeriod]_vars

\* The call closed the open period of the search at the timestamp
ClosedAt(expr, t) ==
    /\ searches'[expr].findings =
          Append(searches[expr].findings, Period(searches[expr].current_period.t, t))
    /\ searches'[expr].current_period = NoTimestamp

\* The expression of the search is false at the timestamp
FalseAt(expr, t) ==
    eval_at(searches[expr].expr, t).ok /\ ~eval_at(searches[expr].expr, t).result

\* C32: for every search expression and every timestamp t passed to search_at in
\* increasing order: if the expression evaluates to false at t while a period is open
\* (current_period = s), then Period(s, t) is appended to the findings and
\* current_period is cleared at that call.
C32_FalseClosesPeriod ==
    \A expr \in DOMAIN searches, t \in Times :
        (/\ Active(expr)
         /\ t > searches[expr].cursor.t
         /\ searches[expr].current_period.some
         /\ FalseAt(expr, t))
            => ~ENABLED (db_search_at(expr, t) /\ ~ClosedAt(expr, t))

\* What holds of the calls: the period is closed when the result is false and of
\* type Level
C32_FalseLevelClosesPeriod ==
    \A expr \in DOMAIN searches, t \in Times :
        (/\ Active(expr)
         /\ t > searches[expr].cursor.t
         /\ searches[expr].current_period.some
         /\ FalseAt(expr, t)
         /\ eval_at(searches[expr].expr, t).ty = "Level")
            => ~ENABLED (db_search_at(expr, t) /\ ~ClosedAt(expr, t))

\* The first timestamp of a finding, and the timestamp where it ends
FindingBegin(finding) == finding.begin
FindingEnd(finding) == IF finding.k = "Point" THEN finding.begin ELSE finding.end

\* The findings are in the order of time, and none is equal to the next or overlaps it
SortedFindings(search) ==
    \A i \in 1..(Len(search.findings) - 1) :
        /\ FindingEnd(search.findings[i]) <= FindingBegin(search.findings[i + 1])
        /\ search.findings[i] # search.findings[i + 1]

PeriodsNotEmpty(search) ==
    \A i \in 1..Len(search.findings) :
        search.findings[i].k = "Period" => search.findings[i].begin < search.findings[i].end

OpenPeriodInPlace(search) ==
    search.current_period.some =>
        /\ search.findings # <<>> =>
              search.current_period.t >= FindingEnd(search.findings[Len(search.findings)])
        /\ search.cursor.some => search.current_period.t <= search.cursor.t

\* C33: after any sequence of search_init, search_at (with arbitrary, possibly repeated
\* or decreasing timestamps) and finish_search on a named search, the findings vector
\* is sorted by time with no two findings equal or overlapping, every Period has
\* begin < end, and an open current_period is >= the end of the last finding and <= the
\* cursor.
C33_FindingsSorted ==
    \A expr \in DOMAIN searches :
        /\ SortedFindings(searches[expr])
        /\ PeriodsNotEmpty(searches[expr])
        /\ OpenPeriodInPlace(searches[expr])

\* What holds of the calls: the findings never go back in time while the search is
\* active, every Period has begin < end and the open period is in its place
C33_FindingsInOrderWhileActive ==
    \A expr \in DOMAIN searches :
        /\ PeriodsNotEmpty(searches[expr])
        /\ Active(expr) =>
              /\ \A i \in 1..(Len(searches[expr].findings) - 1) :
                    FindingEnd(searches[expr].findings[i])
                        <= FindingBegin(searches[expr].findings[i + 1])
              /\ OpenPeriodInPlace(searches[expr])

(***************************************************************************)
(* The locks of the store (signaldb/db.rs): what each operation locks and  *)
(* unlocks, in the order of its code. A guard bound with `let` is dropped  *)
(* at the end of its block, guards of one block in the reverse order of    *)
(* their declarations.                                                     *)
(***************************************************************************)
Locks == {"scope", "signals", "timestamps", "now", "searches", "status", "initialized", "valid"}

L(l) == [a |-> "lock", l |-> l]
U(l) == [a |-> "unlock", l |-> l]

\* self.x.lock().unwrap() in a block of its own, or as the only guard of a function
Locked(l) == <<L(l), U(l)>>

\* SignalDB::set_time with a timestamp later than now, and with another
Locks_set_time_later == <<L("now"), L("timestamps"), U("timestamps"), U("now")>>
Locks_set_time == Locked("now")

\* SignalDB::insert_event; the timestamp is later than now or not
Locks_insert_event(later) ==
    (IF later THEN Locks_set_time_later ELSE Locks_set_time) \o Locked("signals")

\* declare_signal keeping its first guard until it returns
Locks_declare_signal_one_block == <<L("signals"), L("scope"), U("scope"), U("signals")>>

\* SignalDB::declare_signal
Locks_declare_signal == Locked("signals") \o Locked("scope")

\* SignalDB::wait_until_initialized on a latch that is set; valid is true or not
Locks_wait_until_initialized(valid_flag) ==
    <<L("initialized"), L("valid")>>
        \o (IF valid_flag THEN <<>> ELSE Locked("status"))
        \o <<U("valid"), U("initialized")>>

\* SignalDB::parse_vcd_with_limit around parser.parse(), which succeeds or not
Locks_parse_vcd_with_limit(parsed) ==
    Locked("status")
        \o (IF parsed THEN <<L("timestamps"), L("status"), U("status"), U("timestamps")>>
            ELSE Locked("status") \o Locked("valid") \o Locked("initialized"))

\* SignalDB::search_at; the expression is registered and reads a signal, or is not
Locks_search_at(found) ==
    IF found THEN <<L("searches"), L("signals"), U("signals"), U("searches")>>
    ELSE Locked("searches")

\* Search::search_all on one timestamp: the iterator, then the evaluation
Locks_search_all == Locked("timestamps") \o Locked("signals")

\* The operations of the store, with the case of their code where it matters
StoreOps ==
    {"parse_vcd_with_limit: Ok", "parse_vcd_with_limit: Err", "mark_as_initialized",
     "mark_as_invalid", "is_valid", "wait_until_initialized: Ok",
     "wait_until_initialized: Err", "set_status", "get_status", "create_scope",
     "declare_signal", "insert_event: later", "insert_event", "set_time: later",
     "set_time", "set_current_value", "EventIterator::next", "value_at", "event_at",
     "get_signal_fullname", "signal_exists", "find_signals", "get_signal_ids",
     "get_next_rising_edge", "get_previous_rising_edge", "get_next_falling_edge",
     "get_first_event", "get_last_event", "events_between: unknown", "events_between",
     "search_all", "search", "search_init", "search_at", "search_at: SearchNotFound",
     "finish_search", "findings_between", "get_next_finding", "get_end_of_next_finding",
     "get_previous_finding", "get_first_finding", "get_last_finding", "format_stats",
     "format_values_at"}

LockSteps(op) ==
    CASE op = "parse_vcd_with_limit: Ok" -> Locks_parse_vcd_with_limit(TRUE)
      [] op = "parse_vcd_with_limit: Err" -> Locks_parse_vcd_with_limit(FALSE)
      [] op = "mark_as_initialized" -> Locked("initialized")
      [] op \in {"mark_as_invalid", "is_valid"} -> Locked("valid")
      [] op = "wait_until_initialized: Ok" -> Locks_wait_until_initialized(TRUE)
      [] op = "wait_until_initialized: Err" -> Locks_wait_until_initialized(FALSE)
      [] op \in {"set_status", "get_status"} -> Locked("status")
      [] op = "create_scope" -> Locked("scope")
      [] op = "declare_signal" -> Locks_declare_signal
      [] op = "insert_event: later" -> Locks_insert_event(TRUE)
      [] op = "insert_event" -> Locks_insert_event(FALSE)
      [] op = "set_time: later" -> Locks_set_time_later
      [] op = "set_time" -> Locks_set_time
      [] op = "set_current_value" -> Locked("now") \o Locks_insert_event(FALSE)
      [] op = "EventIterator::next" -> Locked("timestamps")
      [] op = "events_between: unknown" -> Locked("now")
      [] op = "events_between" -> Locked("now") \o Locked("signals")
      [] op = "search_all" -> Locks_search_all
      [] op = "search" -> Locks_search_all \o Locked("searches")
      [] op = "search_at" -> Locks_search_at(TRUE)
      [] op = "search_at: SearchNotFound" -> Locks_search_at(FALSE)
      [] op \in {"search_init", "finish_search", "findings_between", "get_next_finding",
                 "get_end_of_next_finding", "get_previous_finding", "get_first_finding",
                 "get_last_finding"} -> Locked("searches")
      [] op \in {"format_stats", "format_values_at"} ->
            <<L("scope"), L("signals"), U("signals"), U("scope")>>
      [] OTHER -> Locked("signals")

\* The locks held after a step
Without(held, l) == SelectSeq(held, LAMBDA x : x # l)
HeldAfter(held, step) == IF step.a = "lock" THEN Append(held, step.l) ELSE Without(held, step.l)

(***************************************************************************)
(* SpecLocks: a thread calls the operations of the store, one after the    *)
(* other; worker.seen is the locks it holds, in the order it took them     *)
(***************************************************************************)
CallBegin ==
    /\ worker.pc = "idle"
    /\ \E op \in StoreOps : worker' = [IdleWorker EXCEPT !.pc = "call", !.expr = op]
    /\ UNCHANGED <<dbvars, parservars, waiter>>

\* The next lock() or drop of the operation
CallStep ==
    /\ worker.pc = "call"
    /\ worker.index < Len(LockSteps(worker.expr))
    /\ worker' = [worker EXCEPT
                     !.index = @ + 1,
                     !.seen = HeldAfter(@, LockSteps(worker.expr)[worker.index + 1])]
    /\ UNCHANGED <<dbvars, parservars, waiter>>

CallReturn ==
    /\ worker.pc = "call"
    /\ worker.index = Len(LockSteps(worker.expr))
    /\ worker' = IdleWorker
    /\ UNCHANGED <<dbvars, parservars, waiter>>

NextLocks ==
    \/ CallBegin
    \/ CallStep
    \/ CallReturn

SpecLocks == Init /\ [][NextLocks]_vars

\* C34: no store operation acquires a second lock while it already holds one of the
\* store's locks, with the single exception of set_time, which acquires the timestamps
\* lock while holding the now lock.
C34_OneLockAtATime ==
    Len(worker.seen) >= 2 => worker.seen = <<"now", "timestamps">>

\* The operations that take a lock while they hold another, and the locks they then
\* hold
Nested ==
    {<<"set_time: later", <<"now", "timestamps">>>>,
     <<"insert_event: later", <<"now", "timestamps">>>>,
     <<"wait_until_initialized: Ok", <<"initialized", "valid">>>>,
     <<"wait_until_initialized: Err", <<"initialized", "valid">>>>,
     <<"wait_until_initialized: Err", <<"initialized", "valid", "status">>>>,
     <<"search_at", <<"searches", "signals">>>>,
     <<"format_stats", <<"scope", "signals">>>>,
     <<"format_values_at", <<"scope", "signals">>>>,
     <<"parse_vcd_with_limit: Ok", <<"timestamps", "status">>>>}

\* C34, amended: no store operation acquires a second lock while it already holds one
\* of the store's locks, with the exceptions of set_time (timestamps while holding
\* now), wait_until_initialized (valid, and status when it fails, while holding
\* initialized), search_at (signals while holding searches), format_stats and
\* format_values_at (signals while holding scope) and parse_vcd_with_limit (status
\* while holding timestamps).
C34_NestedLocks ==
    Len(worker.seen) >= 2 => <<worker.expr, worker.seen>> \in Nested

\* search_at evaluates the expression under the lock of the searches
C34_Witness ==
    /\ worker.expr = "search_at"
    /\ worker.seen = <<"searches", "signals">>

(***************************************************************************)
(* SpecVcdOrder: the parse of dumps whose markers go back in time and      *)
(* whose wire is assigned several times under one marker                   *)
(***************************************************************************)
\* After 42 and 1338 the marker 42 comes again, and the wire is assigned three times
\* under it
ChangesBack ==
    Changes \o << <<W_t42>>, <<W_b0, W_hash>>, <<W_b1, W_hash>>, <<W_b0, W_hash>> >>

\* The marker 1338 comes first and twice, the wire is assigned its value again
ChangesLateFirst ==
    << <<W_t1338>>, <<W_b1, W_hash>>, <<W_b0, W_hash>>, <<W_t1338>>, <<W_b0, W_hash>>,
       <<W_t42>>, <<W_b1, W_hash>>, <<W_t1338>>, <<W_b0, W_hash>> >>

OrderLines ==
    {Declarations \o EndDefinitions \o DumpVars \o ChangesBack,
     Declarations \o EndDefinitions \o DumpVars \o ChangesLateFirst,
     Declarations \o EndDefinitions \o ChangesBack}

\* The dumps, and the same cut short by a stray line
OrderFiles ==
    {File(lines) : lines \in OrderLines}
        \cup {File(Stray(lines, Len(lines) - 2)) : lines \in OrderLines}

InitVcdOrder ==
    /\ DbNew
    /\ text \in OrderFiles
    /\ lexer = NewLexer
    /\ parser \in {[IdleParser EXCEPT !.limit = l] : l \in Limits}
    /\ waiter = [w \in Waiters |-> IdleWaiter]
    /\ worker = IdleWorker

SpecVcdOrder == InitVcdOrder /\ [][NextVcd]_vars

\* No event of the signal is later than the current time: an insertion at the current
\* time is at or after the last event
LastEventNotLater(sig) ==
    sig.events # <<>> => sig.events[Len(sig.events)].timestamp <= now

\* C35: while the store is written only by the VCD parser (set_time on `#N` tokens,
\* set_current_value on value changes), every insertion targets a timestamp >= the
\* signal's last event, so in every reachable state each signal's event list is
\* strictly increasing in time with adjacent values distinct, even when the `#N`
\* markers of the file are non-monotonic or a signal is assigned several times under
\* one timestamp.
C35_ParserKeepsEventsOrdered ==
    \A id \in DOMAIN signals :
        /\ LastEventNotLater(signals[id])
        /\ EventsIncreasing(signals[id])
        /\ AdjacentDistinct(signals[id])

\* The parse of the dump whose marker goes back has read the three assignments under
\* the marker 42 that comes after 1338
C35_Witness ==
    /\ text = File(Declarations \o EndDefinitions \o DumpVars \o ChangesBack)
    /\ parser.tok = TokEof
    /\ now = 1338
    /\ Len(signals[W_hash].events) = 2

(***************************************************************************)
(* SpecVcdShort: the parse of dumps that end, or reach the limit, before   *)
(* $enddefinitions                                                         *)
(***************************************************************************)
\* An empty input, the declarations alone, and value changes without $enddefinitions;
\* the whole dump, and a dump with a stray line
ShortFiles ==
    {<<>>, File(Declarations), File(Declarations \o DumpVars \o Changes),
     File(VcdLines), File(Stray(VcdLines, 2))}

InitVcdShort ==
    /\ DbNew
    /\ text \in ShortFiles
    /\ lexer = NewLexer
    /\ parser \in {[IdleParser EXCEPT !.limit = l] : l \in Limits}
    /\ waiter = [w \in Waiters |-> IdleWaiter]
    /\ worker = IdleWorker

SpecVcdShort == InitVcdShort /\ [][NextVcd]_vars

\* parse_vcd has returned, Ok or with the error
Terminated == parser.pc \in {"done_ok", "done_err"}

\* C36: whenever the parser task terminates, whether by reaching end of input, by
\* reaching the parse limit or with a syntax error, the initialization latch has been
\* released, so every thread blocked in wait_until_initialized eventually returns.
C36_TerminatedReleasesLatch == Terminated => initialized

\* What holds of the parse: it releases the latch when it fails and when it has read
\* $enddefinitions
C36_FailedReleasesLatch == parser.pc = "done_err" => initialized

(***************************************************************************)
(* The search of a worker and the search of SignalDB::search, under        *)
(* SpecSearch                                                              *)
(***************************************************************************)
\* SignalDB::search(expr) on the store as it is: the Search it would record
SyncSearch(expr) == search_all(NewSearch(ExprAst_from_str(expr).ast))

\* The parser and the worker have both terminated
BothTerminated == worker.pc = "done" /\ parser.pc \in {"done_ok", "done_err"}

\* C37: when AsyncSignalDB.search(expr) runs concurrently with the background parser,
\* the findings and current_period recorded for expr once both threads have terminated
\* equal those produced by a synchronous search(expr) executed after the parse has
\* completed.
C37_AsyncEqualsSync ==
    (BothTerminated /\ worker.expr \in DOMAIN searches /\ SyncSearch(worker.expr).ok) =>
        /\ searches[worker.expr].findings = SyncSearch(worker.expr).search.findings
        /\ searches[worker.expr].current_period
              = SyncSearch(worker.expr).search.current_period

(***************************************************************************)
(* SpecTwin: the same expression is submitted twice to AsyncSignalDB::search, *)
(* on a store already filled: two workers feed the one Search of the text  *)
(***************************************************************************)
NumWorkers == 2

Workers == 1..NumWorkers

TwinExprs == {"$0 <- 1", "$0 = 1"}

InitTwin ==
    /\ DbNew
    /\ text = <<>>
    /\ lexer = NewLexer
    /\ parser = IdleParser
    /\ waiter = [w \in Waiters |-> IdleWaiter]
    /\ worker = [i \in Workers |-> IdleWorker]

\* What the workers leave alone
tquiet == <<scope, signals, timestamps, now, timescale, initialized, valid,
            lock_initialized, lock_valid, lock_signals, panicked, ret, parservars, waiter>>

\* AsyncSignalDB::search spawns a worker; every worker is given the same text
TwinSearch(i) ==
    /\ worker[i].pc = "idle"
    /\ \E expr \in TwinExprs :
          /\ \A j \in Workers : worker[j].pc # "idle" => worker[j].expr = expr
          /\ worker' = [worker EXCEPT ![i].pc = "init", ![i].expr = expr]
    /\ UNCHANGED <<searches, status, tquiet>>

\* search_init and the iterator of get_timestamps
TwinSearchInit(i) ==
    /\ worker[i].pc = "init"
    /\ searches' = search_init(worker[i].expr)
    /\ worker' = [worker EXCEPT ![i].pc = "next", ![i].index = 0]
    /\ UNCHANGED <<status, tquiet>>

\* EventIterator::next
TwinNext(i) ==
    /\ worker[i].pc = "next"
    /\ worker' = IF worker[i].index < Len(timestamps)
                 THEN [worker EXCEPT ![i].pc = "at", ![i].index = @ + 1,
                                     ![i].timestamp = timestamps[worker[i].index + 1]]
                 ELSE [worker EXCEPT ![i].pc = "finish", ![i].index = @ + 1]
    /\ UNCHANGED <<searches, status, tquiet>>

\* SignalDB::search_at on the timestamp; an error sets the status and ends the thread
TwinSearchAt(i) ==
    /\ worker[i].pc = "at"
    /\ IF worker[i].expr \in DOMAIN searches
          /\ search_at(searches[worker[i].expr], worker[i].timestamp).ok
       THEN /\ searches' = [searches EXCEPT
                               ![worker[i].expr] = search_at(@, worker[i].timestamp).search]
            /\ worker' = [worker EXCEPT ![i].pc = "next"]
            /\ UNCHANGED status
       ELSE /\ set_status(InvalidSearchExpression)
            /\ worker' = [worker EXCEPT ![i].pc = "done"]
            /\ UNCHANGED searches
    /\ UNCHANGED tquiet

\* SignalDB::finish_search
TwinFinish(i) ==
    /\ worker[i].pc = "finish"
    /\ searches' = IF worker[i].expr \in DOMAIN searches
                   THEN [searches EXCEPT ![worker[i].expr] = finish(@)]
                   ELSE searches
    /\ worker' = [worker EXCEPT ![i].pc = "done"]
    /\ UNCHANGED <<status, tquiet>>

\* The store is filled before the first worker is spawned
TwinFill ==
    /\ \A i \in Workers : worker[i].pc = "idle"
    /\ StepFill

TwinSpawn == \E i \in Workers : TwinSearch(i)
TwinInit == \E i \in Workers : TwinSearchInit(i)
TwinIter == \E i \in Workers : TwinNext(i)
TwinAt == \E i \in Workers : TwinSearchAt(i)
TwinEnd == \E i \in Workers : TwinFinish(i)

NextTwin ==
    \/ TwinFill
    \/ TwinSpawn
    \/ TwinInit
    \/ TwinIter
    \/ TwinAt
    \/ TwinEnd

SpecTwin == InitTwin /\ [][NextTwin]_vars

\* C38: when the same expression text is submitted twice to AsyncSignalDB.search (two
\* workers feeding the single Search entry keyed by that text, as happens each time the
\* TUI re-applies a layout), the entry's findings stay sorted and contain no duplicate
\* entry in every reachable state.
C38_TwinFindingsSorted ==
    \A expr \in DOMAIN searches : SortedFindings(searches[expr])

\* One worker alone keeps the findings sorted and without duplicates
C38_OneWorkerFindingsSorted ==
    (\E i \in Workers : worker[i].pc = "idle") => C38_TwinFindingsSorted

(***************************************************************************)
(* SpecThreads: the threads of the program call the operations of the      *)
(* store at the same time. worker[i].seen is the locks thread i holds; a   *)
(* lock() returns when no other thread holds the mutex, and the wait of    *)
(* wait_until_initialized returns when the latch is set.                   *)
(***************************************************************************)
\* One operation for each way the store's code takes its locks
ThreadOps ==
    {"parse_vcd_with_limit: Ok", "parse_vcd_with_limit: Err", "mark_as_initialized",
     "mark_as_invalid", "wait_until_initialized: Ok", "wait_until_initialized: Err",
     "set_status", "create_scope", "declare_signal", "insert_event: later", "insert_event",
     "set_time: later", "set_current_value", "EventIterator::next", "events_between",
     "search", "search_at", "finish_search", "format_stats", "value_at"}

InitThreads ==
    /\ DbNew
    /\ text = <<>>
    /\ lexer = NewLexer
    /\ parser = IdleParser
    /\ waiter = [w \in Waiters |-> IdleWaiter]
    /\ worker = [i \in Workers |-> IdleWorker]

\* The lock() or the drop thread i is at, when it is in a call that has one left
InCall(i) == worker[i].pc = "call" /\ worker[i].index < Len(LockSteps(worker[i].expr))
StepOf(i) == LockSteps(worker[i].expr)[worker[i].index + 1]

Holds(j, l) == \E k \in 1..Len(worker[j].seen) : worker[j].seen[k] = l

\* Thread i is in wait_until_initialized and the latch is not set: the condition
\* variable has released the mutex
AtLatch(i) ==
    /\ InCall(i)
    /\ worker[i].expr \in {"wait_until_initialized: Ok", "wait_until_initialized: Err"}
    /\ worker[i].index = 0
    /\ ~initialized

\* Thread i is in a lock() on a mutex that thread j holds
WaitsFor(i, j) ==
    /\ InCall(i)
    /\ StepOf(i).a = "lock"
    /\ Holds(j, StepOf(i).l)

\* The operations whose guard of `initialized` sets the latch
SetsLatch(i) ==
    /\ worker[i].expr \in {"mark_as_initialized", "parse_vcd_with_limit: Err"}
    /\ StepOf(i) = L("initialized")

ThreadCall(i) ==
    /\ worker[i].pc = "idle"
    /\ \E op \in ThreadOps :
          worker' = [worker EXCEPT ![i] = [IdleWorker EXCEPT !.pc = "call", !.expr = op]]
    /\ UNCHANGED <<dbvars, parservars, waiter>>

ThreadStep(i) ==
    /\ InCall(i)
    /\ ~AtLatch(i)
    /\ \A j \in Workers : ~WaitsFor(i, j)
    /\ worker' = [worker EXCEPT ![i].index = @ + 1,
                                ![i].seen = HeldAfter(@, StepOf(i))]
    /\ initialized' = (initialized \/ SetsLatch(i))
    /\ UNCHANGED <<scope, signals, timestamps, now, searches, timescale, status, valid,
                   ret, panicked, lock_initialized, lock_valid, lock_signals,
                   parservars, waiter>>

ThreadReturn(i) ==
    /\ worker[i].pc = "call"
    /\ ~InCall(i)
    /\ worker' = [worker EXCEPT ![i] = IdleWorker]
    /\ UNCHANGED <<dbvars, parservars, waiter>>

ThreadsCall == \E i \in Workers : ThreadCall(i)
ThreadsStep == \E i \in Workers : ThreadStep(i)
ThreadsReturn == \E i \in Workers : ThreadReturn(i)

NextThreads ==
    \/ ThreadsCall
    \/ ThreadsStep
    \/ ThreadsReturn

SpecThreads == InitThreads /\ [][NextThreads]_vars

\* No cyclic wait among the locks: in no set of threads does each wait for a mutex
\* that a thread of the set holds
NoCyclicWait ==
    \A S \in (SUBSET Workers) \ {{}} : \E i \in S : \A j \in S : ~WaitsFor(i, j)

\* A thread at the latch holds no lock
LatchWaiterHoldsNothing == \A i \in Workers : AtLatch(i) => worker[i].seen = <<>>

\* Two threads contend: one waits for the mutex of the signals that the other took
\* under the mutex of the searches
ThreadsContend ==
    \E i, j \in Workers :
        /\ WaitsFor(i, j)
        /\ worker[j].seen = <<"searches", "signals">>

(***************************************************************************)
(* SpecVcdBlank: the parser thread reads dumps whose last line is blank or *)
(* not, while the query threads wait for the latch                         *)
(***************************************************************************)
BlankLine == <<"\n">>

BlankFiles ==
    {File(VcdLines), File(VcdLines) \o BlankLine, File(Declarations) \o BlankLine,
     File(Stray(VcdLines, 2))}

InitVcdBlank ==
    /\ DbNew
    /\ text \in BlankFiles
    /\ lexer = NewLexer
    /\ parser \in {[IdleParser EXCEPT !.limit = l] : l \in Limits}
    /\ waiter = [w \in Waiters |-> IdleWaiter]
    /\ worker = IdleWorker

SpecVcdBlank == InitVcdBlank /\ [][NextVcd]_vars

\* C39: under any interleaving of one parser thread, any number of query threads and
\* any number of search workers, no cyclic wait arises among the store's locks: apart
\* from threads blocked in wait_until_initialized before the latch is released, every
\* store call eventually completes. The parser thread's call of parse_vcd_with_limit is
\* never in a state it cannot leave.
C39_EveryCallCompletes == parser.pc # "hang"

\* What holds of parse_vcd_with_limit: it is stuck only in the lexer, on a dump whose
\* last line is blank
C39_StuckOnlyOnLastBlankLine == parser.pc = "hang" => lexer.hang /\ EndsWithBlankLine

(***************************************************************************)
(* SpecVcdScope: the parse of every sequence of at most MaxStmts $scope,   *)
(* $upscope and $var statements                                            *)
(***************************************************************************)
MaxStmts == 3

\* $scope with one of two names, $upscope, and the declaration of the wire #
ScopeStmts ==
    {<<W_scope, W_module, W_logic, W_end>>, <<W_scope, W_module, W_foo, W_end>>,
     <<W_upscope, W_end>>, <<W_var, W_wire, W_1, W_hash, W_foo, W_end>>}

ScopeLines == UNION {[1..n -> ScopeStmts] : n \in 0..MaxStmts}

\* The sequences of statements, the whole dump and the dump with a stray line
ScopeFiles ==
    {File(lines) : lines \in ScopeLines} \cup {File(VcdLines), File(Stray(VcdLines, 2))}

InitVcdScope ==
    /\ DbNew
    /\ text \in ScopeFiles
    /\ lexer = NewLexer
    /\ parser \in {[IdleParser EXCEPT !.limit = l] : l \in Limits}
    /\ waiter = [w \in Waiters |-> IdleWaiter]
    /\ worker = IdleWorker

SpecVcdScope == InitVcdScope /\ [][NextVcd]_vars

\* C40: for every sequence of $scope, $upscope and $var statements (including $upscope
\* on an empty scope stack), the scope path under which the parser declares a variable
\* has already been created in the store, so declare_signal's 'Scope is not defined'
\* panic is unreachable from the parser.
C40_ParserScopeIsCreated ==
    /\ get_scope_by_path(scope, parser.scope)
    /\ ~panicked
    /\ parser.pc # "panic"

\* The parser has declared the wire under a scope it entered after a $upscope on an
\* empty scope stack
C40_Witness ==
    /\ text = File(<< <<W_upscope, W_end>>, <<W_scope, W_module, W_logic, W_end>>,
                      <<W_var, W_wire, W_1, W_hash, W_foo, W_end>> >>)
    /\ <<W_logic>> \in scope.scopes
    /\ \E e \in scope.signals : e[1] = <<W_logic>>
=============================================================================
